---- MODULE Spec2Model ----
(***************************************************************************)
(* Model of the context-window library: the chunker, the context packer,   *)
(* the ask pipeline, the ingestion pipeline and the window registry.       *)
(* Strings whose content matters (document text, chunk text, file paths)   *)
(* are sequences of one-character strings.                                 *)
(***************************************************************************)
EXTENDS Integers, Sequences, FiniteSets, TLC

(***************************************************************************)
(* Bounds of the model.                                                    *)
(***************************************************************************)
MaxTextLen == 4
MaxSize == 3
MaxMatchLen == 2
MaxMatches == 3
MaxBudget == 3

(***************************************************************************)
(* JavaScript string primitives.                                           *)
(***************************************************************************)
Min(a, b) == IF a < b THEN a ELSE b
Max(a, b) == IF a > b THEN a ELSE b

\* String.prototype.slice(start, end): negative indices count from the end,
\* both are clamped to [0, length], an empty range yields "".
Slice(s, start, end) ==
  LET len  == Len(s)
      from == IF start < 0 THEN Max(len + start, 0) ELSE Min(start, len)
      to   == IF end < 0 THEN Max(len + end, 0) ELSE Min(end, len)
  IN  IF to > from THEN SubSeq(s, from + 1, to) ELSE <<>>

\* The characters matched by \s and removed by trim().
IsWhitespace(c) == c \in {" ", "\t", "\n", "\r"}

RECURSIVE TrimStart(_)
TrimStart(s) ==
  IF s # <<>> /\ IsWhitespace(Head(s)) THEN TrimStart(Tail(s)) ELSE s

RECURSIVE TrimEnd(_)
TrimEnd(s) ==
  IF s # <<>> /\ IsWhitespace(s[Len(s)])
  THEN TrimEnd(SubSeq(s, 1, Len(s) - 1)) ELSE s

Trim(s) == TrimEnd(TrimStart(s))

\* s.replace(/\s+/g, " "): every maximal run of whitespace becomes one space.
RECURSIVE ReplaceWhitespaceRuns(_)
ReplaceWhitespaceRuns(s) ==
  IF s = <<>> THEN <<>>
  ELSE IF IsWhitespace(Head(s))
       THEN <<" ">> \o ReplaceWhitespaceRuns(TrimStart(s))
       ELSE <<Head(s)>> \o ReplaceWhitespaceRuns(Tail(s))

\* Array.prototype.join(sep) on an array of strings.
RECURSIVE Join(_, _)
Join(strs, sep) ==
  IF strs = <<>> THEN <<>>
  ELSE IF Len(strs) = 1 THEN strs[1]
  ELSE strs[1] \o sep \o Join(Tail(strs), sep)

\* All sequences over S of length at most n.
SeqsUpTo(S, n) == UNION {[1..k -> S] : k \in 0..n}

RECURSIVE SumLen(_)
SumLen(strs) == IF strs = <<>> THEN 0 ELSE Len(Head(strs)) + SumLen(Tail(strs))

(***************************************************************************)
(* chunkText: the sliding-window chunker.                                  *)
(***************************************************************************)
\* The loop is cut off after MaxIter windows; a cut-off run is reported with
\* returned = FALSE (the code would still be looping).
MaxIter == MaxTextLen + 2

RECURSIVE chunkLoop(_, _, _, _, _)
chunkLoop(text, size, overlap, start, chunks) ==
  IF ~(start < Len(text)) THEN [chunks |-> chunks, returned |-> TRUE]
  ELSE IF Len(chunks) >= MaxIter THEN [chunks |-> chunks, returned |-> FALSE]
  ELSE LET end    == start + size
           chunk  == Slice(text, start, end)
           pushed == Append(chunks, chunk)
       IN  IF end >= Len(text)
           THEN [chunks |-> pushed, returned |-> TRUE]
           ELSE chunkLoop(text, size, overlap, start + (size - overlap), pushed)

\* A plausible slip: the break at the end of the text is missing, the loop
\* runs until start passes the end.
RECURSIVE chunkLoopNoBreak(_, _, _, _, _)
chunkLoopNoBreak(text, size, overlap, start, chunks) ==
  IF ~(start < Len(text)) THEN [chunks |-> chunks, returned |-> TRUE]
  ELSE IF Len(chunks) >= MaxIter THEN [chunks |-> chunks, returned |-> FALSE]
  ELSE chunkLoopNoBreak(text, size, overlap, start + (size - overlap),
                        Append(chunks, Slice(text, start, start + size)))

chunkTextNoBreak(text, size, overlap) ==
  IF Len(text) = 0 THEN [chunks |-> <<>>, returned |-> TRUE]
  ELSE IF Len(text) <= size THEN [chunks |-> <<text>>, returned |-> TRUE]
  ELSE chunkLoopNoBreak(text, size, overlap, 0, <<>>)

\* A plausible slip: the empty-text early return is missing.
chunkTextNoEmptyCheck(text, size, overlap) ==
  IF Len(text) <= size THEN [chunks |-> <<text>>, returned |-> TRUE]
  ELSE chunkLoop(text, size, overlap, 0, <<>>)

\* A plausible slip: the window advances by size, the overlap is forgotten.
chunkTextNoOverlap(text, size, overlap) ==
  IF Len(text) = 0 THEN [chunks |-> <<>>, returned |-> TRUE]
  ELSE IF Len(text) <= size THEN [chunks |-> <<text>>, returned |-> TRUE]
  ELSE chunkLoop(text, size, 0, 0, <<>>)

\* A plausible slip: a last window shorter than size is dropped.
chunkTextDropTail(text, size, overlap) ==
  IF Len(text) = 0 THEN [chunks |-> <<>>, returned |-> TRUE]
  ELSE IF Len(text) <= size THEN [chunks |-> <<text>>, returned |-> TRUE]
  ELSE LET r == chunkLoop(text, size, overlap, 0, <<>>)
           full(c) == Len(c) = size
       IN  [r EXCEPT !.chunks = SelectSeq(r.chunks, full)]

chunkText(text, size, overlap) ==
  IF Len(text) = 0 THEN [chunks |-> <<>>, returned |-> TRUE]
  ELSE IF Len(text) <= size THEN [chunks |-> <<text>>, returned |-> TRUE]
  ELSE chunkLoop(text, size, overlap, 0, <<>>)

(***************************************************************************)
(* packContext: selection of matches under the character budget.           *)
(***************************************************************************)
ContextSeparator == <<"\n", "\n", "-", "-", "-", "\n", "\n">>

\* A plausible slip: an overflowing match is skipped instead of ending the loop.
RECURSIVE packLoopSkip(_, _, _)
packLoopSkip(matches, maxContextChars, acc) ==
  IF matches = <<>> THEN acc
  ELSE LET chunk  == Head(matches).text
           source == Head(matches).source
       IN  IF acc.totalChars + Len(chunk) > maxContextChars
           THEN packLoopSkip(Tail(matches), maxContextChars, acc)
           ELSE packLoopSkip(Tail(matches), maxContextChars,
                  [chunks     |-> Append(acc.chunks, chunk),
                   totalChars |-> acc.totalChars + Len(chunk),
                   sources    |-> IF \E i \in 1..Len(acc.sources) : acc.sources[i] = source
                                  THEN acc.sources
                                  ELSE Append(acc.sources, source)])

\* A plausible slip: the source is recorded without the seenSources test.
RECURSIVE packLoopNoDedup(_, _, _)
packLoopNoDedup(matches, maxContextChars, acc) ==
  IF matches = <<>> THEN acc
  ELSE LET chunk  == Head(matches).text
           source == Head(matches).source
       IN  IF acc.totalChars + Len(chunk) > maxContextChars THEN acc
           ELSE packLoopNoDedup(Tail(matches), maxContextChars,
                  [chunks     |-> Append(acc.chunks, chunk),
                   totalChars |-> acc.totalChars + Len(chunk),
                   sources    |-> Append(acc.sources, source)])

\* The for loop of packContext; acc holds its locals chunks, sources and
\* totalChars (seenSources is the set of elements of sources).
RECURSIVE packLoop(_, _, _)
packLoop(matches, maxContextChars, acc) ==
  IF matches = <<>> THEN acc
  ELSE LET chunk  == Head(matches).text
           source == Head(matches).source
       IN  IF acc.totalChars + Len(chunk) > maxContextChars THEN acc
           ELSE packLoop(Tail(matches), maxContextChars,
                  [chunks     |-> Append(acc.chunks, chunk),
                   totalChars |-> acc.totalChars + Len(chunk),
                   sources    |-> IF \E i \in 1..Len(acc.sources) : acc.sources[i] = source
                                  THEN acc.sources
                                  ELSE Append(acc.sources, source)])

packSelect(matches, maxContextChars) ==
  packLoop(matches, maxContextChars,
           [chunks |-> <<>>, totalChars |-> 0, sources |-> <<>>])

packContext(matches, maxContextChars) ==
  LET sel == packSelect(matches, maxContextChars)
  IN  [context |-> Join(sel.chunks, ContextSeparator), sources |-> sel.sources]

(***************************************************************************)
(* Options and their normalisation.  An optional field is a record         *)
(* [set, val]; a || d yields d when a is undefined, 0 or "".               *)
(***************************************************************************)
NoNum == [set |-> FALSE, val |-> 0]
NoStr == [set |-> FALSE, val |-> ""]
Some(v) == [set |-> TRUE, val |-> v]

OrNum(o, d) == IF o.set /\ o.val # 0 THEN o.val ELSE d
OrStr(o, d) == IF o.set /\ o.val # "" THEN o.val ELSE d
Truthy(o) == o.set /\ o.val # ""

DefaultModel == "gpt-4o-mini"
DefaultChunkSize == 1000
DefaultChunkOverlap == 150
DefaultTopK == 8
DefaultMaxContextChars == 8000
DefaultScoreThreshold == 0

\* A plausible slip: the check of the data paths is missing.
normalizeOptionsNoDataCheck(opts) ==
  LET namespace == IF Truthy(opts.vsNamespace) THEN opts.vsNamespace
                   ELSE opts.indexName
  IN  IF ~Truthy(opts.indexName)
      THEN [threw |-> TRUE, error |-> "indexName is required"]
      ELSE [threw           |-> FALSE,
            indexName       |-> opts.indexName.val,
            dataPaths       |-> opts.data,
            aiModel         |-> OrStr(opts.aiModel, DefaultModel),
            namespace       |-> namespace.val,
            chunkSize       |-> OrNum(opts.chunkSize, DefaultChunkSize),
            chunkOverlap    |-> OrNum(opts.chunkOverlap, DefaultChunkOverlap),
            topK            |-> OrNum(opts.topK, DefaultTopK),
            maxContextChars |-> OrNum(opts.maxContextChars, DefaultMaxContextChars),
            scoreThreshold  |-> OrNum(opts.scoreThreshold, DefaultScoreThreshold)]

\* normalizeOptions: the defaults are applied first, then the two checks.
\* opts.data is a list of paths here (a single string is wrapped by the code).
normalizeOptions(opts) ==
  LET namespace == IF Truthy(opts.vsNamespace) THEN opts.vsNamespace
                   ELSE opts.indexName
  IN  IF ~Truthy(opts.indexName)
      THEN [threw |-> TRUE, error |-> "indexName is required"]
      ELSE IF Len(opts.data) = 0
      THEN [threw |-> TRUE, error |-> "at least one data path is required"]
      ELSE [threw           |-> FALSE,
            indexName       |-> opts.indexName.val,
            dataPaths       |-> opts.data,
            aiModel         |-> OrStr(opts.aiModel, DefaultModel),
            namespace       |-> namespace.val,
            chunkSize       |-> OrNum(opts.chunkSize, DefaultChunkSize),
            chunkOverlap    |-> OrNum(opts.chunkOverlap, DefaultChunkOverlap),
            topK            |-> OrNum(opts.topK, DefaultTopK),
            maxContextChars |-> OrNum(opts.maxContextChars, DefaultMaxContextChars),
            scoreThreshold  |-> OrNum(opts.scoreThreshold, DefaultScoreThreshold)]

\* The configuration an ask closure reads: the five fields both constructors bind.
AskConfig(c) ==
  [aiModel |-> c.aiModel, namespace |-> c.namespace, topK |-> c.topK,
   maxContextChars |-> c.maxContextChars, scoreThreshold |-> c.scoreThreshold]

\* createContextWindowWithoutIngestion: the handle bound to a vector-store
\* namespace, built without provisioning and without ingestion.
createContextWindowWithoutIngestion(indexName, options) ==
  [ingested |-> FALSE,
   config   |-> [aiModel         |-> OrStr(options.aiModel, DefaultModel),
                 namespace       |-> OrStr(options.namespace, indexName),
                 topK            |-> OrNum(options.topK, DefaultTopK),
                 maxContextChars |-> OrNum(options.maxContextChars, DefaultMaxContextChars),
                 scoreThreshold  |-> OrNum(options.scoreThreshold, DefaultScoreThreshold)]]

\* The handle createContextWindow returns once ingestion has resolved.
IngestedHandle(config) == [ingested |-> TRUE, config |-> AskConfig(config)]

NoHandle == [ingested |-> FALSE,
             config |-> [aiModel |-> "", namespace |-> "", topK |-> 0,
                         maxContextChars |-> 0, scoreThreshold |-> 0]]

(***************************************************************************)
(* The query adapter and the ask pipeline.                                 *)
(***************************************************************************)
\* A plausible slip: the score filter is missing from the adapter.
ScorePassesAlways(m, scoreThreshold) == TRUE

\* The filter predicate of createPineconeQuery.
ScorePasses(m, scoreThreshold) == m.score.set /\ m.score.val >= scoreThreshold

\* createPineconeQuery applied to the raw response of the index: matches
\* without a score or below the threshold are dropped, missing metadata
\* becomes "".
RECURSIVE FilterByScore(_, _)
FilterByScore(response, scoreThreshold) ==
  IF response = <<>> THEN <<>>
  ELSE IF ScorePasses(Head(response), scoreThreshold)
       THEN <<Head(response)>> \o FilterByScore(Tail(response), scoreThreshold)
       ELSE FilterByScore(Tail(response), scoreThreshold)

createPineconeQuery(response, scoreThreshold) ==
  LET kept == FilterByScore(response, scoreThreshold)
  IN  [i \in 1..Len(kept) |->
         [score  |-> kept[i].score.val,
          text   |-> IF kept[i].text.set THEN kept[i].text.val ELSE <<>>,
          source |-> OrStr(kept[i].source, "")]]

IDontKnow == "I don't know based on the uploaded files."

\* A plausible slip: the empty-context test of ask is missing.
ContextIsBlankNever(context) == FALSE

\* !context || context.trim().length === 0
ContextIsBlank(context) == Len(context) = 0 \/ Len(Trim(context)) = 0

\* buildSystemPrompt: the fixed instructions followed by the context.
SystemPromptHeader ==
  <<"You are a strict RAG assistant. Answer ONLY using the provided context. Context:">>

\* A plausible slip: the template of the prompt lost its context placeholder.
buildSystemPromptNoContext(context) == SystemPromptHeader \o <<"\n">>

buildSystemPrompt(context) == SystemPromptHeader \o <<"\n">> \o context

\* The argument of the chat call of ask.
chatRequest(aiModel, context, question) ==
  [model |-> aiModel, system |-> buildSystemPrompt(context), user |-> question]

(***************************************************************************)
(* The registry: a Map from name to ContextWindow.  A key is an optional   *)
(* string, because createCtxWindow stores under opts.namespace as given.   *)
(***************************************************************************)
RegistryHas(reg, key) == \E i \in 1..Len(reg) : reg[i].name = key

RegistryGet(reg, key) == reg[CHOOSE i \in 1..Len(reg) : reg[i].name = key].cw

\* A plausible slip: the registry is a list of pairs and set appends to it.
RegistrySetAppend(reg, key, cw) == Append(reg, [name |-> key, cw |-> cw])

\* Map.set: an existing key keeps its position, a new key goes last.
RegistrySet(reg, key, cw) ==
  IF RegistryHas(reg, key)
  THEN [i \in 1..Len(reg) |-> IF reg[i].name = key THEN [name |-> key, cw |-> cw]
                              ELSE reg[i]]
  ELSE Append(reg, [name |-> key, cw |-> cw])

RECURSIVE RegistryDelete(_, _)
RegistryDelete(reg, key) ==
  IF reg = <<>> THEN <<>>
  ELSE IF Head(reg).name = key THEN RegistryDelete(Tail(reg), key)
  ELSE <<Head(reg)>> \o RegistryDelete(Tail(reg), key)

RegistryKeys(reg) == [i \in 1..Len(reg) |-> reg[i].name]

hasCtxWindow(reg, name) == RegistryHas(reg, Some(name))

\* A plausible slip: the result of registry.delete is dropped, true is returned.
deleteCtxWindowReturnsTrue(reg, name) ==
  [registry |-> RegistryDelete(reg, Some(name)), ret |-> TRUE]

\* A plausible slip: the names are returned in reverse.
listCtxWindowsReversed(reg) ==
  [i \in 1..Len(reg) |-> reg[Len(reg) + 1 - i].name]

deleteCtxWindow(reg, name) ==
  [registry |-> RegistryDelete(reg, Some(name)), ret |-> RegistryHas(reg, Some(name))]
listCtxWindows(reg) == RegistryKeys(reg)

\* A plausible slip (and what the README describes): an unknown name throws.
getCtxWindowThrows(reg, hs, name, options) ==
  IF RegistryHas(reg, Some(name))
  THEN [registry |-> reg, handles |-> hs, cw |-> RegistryGet(reg, Some(name)),
        threw |-> FALSE]
  ELSE [registry |-> reg, handles |-> hs, cw |-> 0, threw |-> TRUE]

\* A plausible slip: the new connection is returned but never stored.
getCtxWindowNoSet(reg, hs, name, options) ==
  IF RegistryHas(reg, Some(name))
  THEN [registry |-> reg, handles |-> hs, cw |-> RegistryGet(reg, Some(name)),
        threw |-> FALSE]
  ELSE [registry |-> reg,
        handles  |-> Append(hs, createContextWindowWithoutIngestion(name, options)),
        cw |-> Len(hs) + 1, threw |-> FALSE]

\* getCtxWindow: the registered handle, or a new connection stored under name.
\* A plausible slip: a namespace given in the options rebinds a registered name.
getCtxWindowRebinds(reg, hs, name, options) ==
  IF RegistryHas(reg, Some(name)) /\ ~options.namespace.set
  THEN [registry |-> reg, handles |-> hs, cw |-> RegistryGet(reg, Some(name)),
        threw |-> FALSE]
  ELSE [registry |-> RegistrySet(reg, Some(name), Len(hs) + 1),
        handles  |-> Append(hs, createContextWindowWithoutIngestion(name, options)),
        cw |-> Len(hs) + 1, threw |-> FALSE]

getCtxWindow(reg, hs, name, options) ==
  IF RegistryHas(reg, Some(name))
  THEN [registry |-> reg, handles |-> hs, cw |-> RegistryGet(reg, Some(name)),
        threw |-> FALSE]
  ELSE [registry |-> RegistrySet(reg, Some(name), Len(hs) + 1),
        handles  |-> Append(hs, createContextWindowWithoutIngestion(name, options)),
        cw |-> Len(hs) + 1, threw |-> FALSE]

\* A plausible slip: an entry that exists is kept, the new handle is dropped.
createCtxWindowRegisterIfAbsent(reg, opts, cw) ==
  IF RegistryHas(reg, opts.namespace) THEN reg
  ELSE RegistrySet(reg, opts.namespace, cw)

\* createCtxWindow after its await: registry.set(opts.namespace, cw).
createCtxWindowRegister(reg, opts, cw) == RegistrySet(reg, opts.namespace, cw)

(***************************************************************************)
(* Paths, the file system and the readers.                                 *)
(***************************************************************************)
PathA  == <<"a", ".", "t", "x", "t">>
PathD  == <<"d">>
NameB  == <<"b", ".", "m", "d">>
NameN  == <<"n", ".", "j", "p", "g">>
NameC  == <<"c", ".", "t", "x", "t">>
PathC  == <<"d", "/", "c", ".", "t", "x", "t">>
PathB  == <<"d", "/", "b", ".", "m", "d">>
PathN  == <<"d", "/", "n", ".", "j", "p", "g">>
PathZ  == <<"z", "z">>

LastIndexOf(s, c) ==
  IF \E i \in 1..Len(s) : s[i] = c
  THEN CHOOSE i \in 1..Len(s) : s[i] = c /\ \A j \in (i + 1)..Len(s) : s[j] # c
  ELSE 0

\* path.join(dir, name) for a plain directory path and an entry name.
join(dir, name) == dir \o <<"/">> \o name

\* path.basename(path): what follows the last separator.
basename(path) == SubSeq(path, LastIndexOf(path, "/") + 1, Len(path))

\* path.extname(path): from the last dot of the basename, "" when there is
\* none or when the basename starts with it.
extname(path) ==
  LET base == basename(path)
      dot  == LastIndexOf(base, ".")
  IN  IF dot <= 1 THEN <<>> ELSE SubSeq(base, dot, Len(base))

ToLowerChar(c) ==
  CASE c = "T" -> "t" [] c = "X" -> "x" [] c = "M" -> "m" [] c = "D" -> "d"
    [] c = "P" -> "p" [] c = "F" -> "f" [] OTHER -> c
toLowerCase(str) == [i \in 1..Len(str) |-> ToLowerChar(str[i])]

ExtTxt == <<".", "t", "x", "t">>
ExtMd  == <<".", "m", "d">>
ExtPdf == <<".", "p", "d", "f">>

isSupportedFile(filepath) == toLowerCase(extname(filepath)) \in {ExtTxt, ExtMd, ExtPdf}

\* A node of the file system; a path outside DOMAIN fs does not exist.
FileNode(readable, text) ==
  [kind |-> "file", entries |-> <<>>, readable |-> readable, text |-> text]
DirNode(entries) ==
  [kind |-> "dir", entries |-> entries, readable |-> FALSE, text |-> <<>>]

\* readAsText: the text of a .txt, .md or .pdf file; it throws for another
\* extension and when the file cannot be read or parsed.
readAsText(filepath, files) ==
  IF ~isSupportedFile(filepath) THEN [threw |-> TRUE, text |-> <<>>]
  ELSE IF ~files[filepath].readable THEN [threw |-> TRUE, text |-> <<>>]
  ELSE [threw |-> FALSE, text |-> files[filepath].text]

\* collectFiles: stat of a missing path throws; a file is kept when supported;
\* a directory is walked, sub-directories recursively.
RECURSIVE collectFiles(_, _)
RECURSIVE collectEntries(_, _, _)
collectEntries(dir, entries, files) ==
  IF entries = <<>> THEN [threw |-> FALSE, files |-> <<>>]
  ELSE LET fullPath == join(dir, Head(entries))
           here == IF files[fullPath].kind = "dir"
                   THEN collectFiles(<<fullPath>>, files)
                   ELSE IF files[fullPath].kind = "file" /\ isSupportedFile(fullPath)
                   THEN [threw |-> FALSE, files |-> <<fullPath>>]
                   ELSE [threw |-> FALSE, files |-> <<>>]
           rest == collectEntries(dir, Tail(entries), files)
       IN  IF here.threw \/ rest.threw THEN [threw |-> TRUE, files |-> <<>>]
           ELSE [threw |-> FALSE, files |-> here.files \o rest.files]

\* The loop over the paths, folded by halves: the files of the first half,
\* then those of the second, in the order of the loop.
collectFiles(paths, files) ==
  IF Len(paths) = 0 THEN [threw |-> FALSE, files |-> <<>>]
  ELSE IF Len(paths) = 1
  THEN LET path == paths[1]
       IN  IF path \notin DOMAIN files THEN [threw |-> TRUE, files |-> <<>>]
           ELSE IF files[path].kind = "file"
           THEN [threw |-> FALSE,
                 files |-> IF isSupportedFile(path) THEN <<path>> ELSE <<>>]
           ELSE collectEntries(path, files[path].entries, files)
  ELSE LET half  == Len(paths) \div 2
           first == collectFiles(SubSeq(paths, 1, half), files)
           rest  == collectFiles(SubSeq(paths, half + 1, Len(paths)), files)
       IN  IF first.threw \/ rest.threw THEN [threw |-> TRUE, files |-> <<>>]
           ELSE [threw |-> FALSE, files |-> first.files \o rest.files]

(***************************************************************************)
(* ingestPaths: records, ids, embedding batches and the upsert.            *)
(***************************************************************************)
PreviewLen == 64
EmbedBatchSize == 100
UpsertBatchSize == 100

DigitChars == <<"0", "1", "2", "3", "4", "5", "6", "7", "8", "9">>
RECURSIVE Decimal(_)
Decimal(n) ==
  IF n < 10 THEN <<DigitChars[n + 1]>>
  ELSE Decimal(n \div 10) \o <<DigitChars[(n % 10) + 1]>>

\* stableHash: SHA-1 of the input, taken as free of collisions.
stableHash(input) == <<"sha1">> \o input

\* A plausible slip: the id is salted with something that differs per call.
chunkIdSalted(filepath, i, chunk, salt) ==
  stableHash(filepath \o <<"#">> \o Decimal(i) \o <<":">>
               \o ReplaceWhitespaceRuns(Slice(chunk, 0, PreviewLen))
               \o <<"@">> \o Decimal(salt))

\* The id of chunk i of a file; salt is the number of the call, which the
\* code does not use.
chunkId(filepath, i, chunk, salt) ==
  stableHash(filepath \o <<"#">> \o Decimal(i) \o <<":">>
               \o ReplaceWhitespaceRuns(Slice(chunk, 0, PreviewLen)))

\* A plausible slip: only the empty text is skipped, blank text is chunked.
skipTextEmptyOnly(text) == Len(text) = 0

\* !text || text.trim().length === 0
skipText(text) == Len(text) = 0 \/ Len(Trim(text)) = 0

\* The body of the per-file try block; a throw of readAsText is caught and
\* the file yields nothing.
fileRecords(filepath, files, size, overlap, salt) ==
  LET r == readAsText(filepath, files)
  IN  IF r.threw THEN <<>>
      ELSE IF skipText(r.text) THEN <<>>
      ELSE LET chunks == chunkText(r.text, size, overlap).chunks
           IN  [i \in 1..Len(chunks) |->
                  [id     |-> chunkId(filepath, i - 1, chunks[i], salt),
                   values |-> <<>>,
                   text   |-> chunks[i],
                   source |-> basename(filepath)]]

\* The loop over the files, folded by halves: the records of the first half,
\* then those of the second, in the order of the loop.
RECURSIVE allFileRecords(_, _, _, _, _)
allFileRecords(filepaths, files, size, overlap, salt) ==
  IF Len(filepaths) = 0 THEN <<>>
  ELSE IF Len(filepaths) = 1
  THEN fileRecords(filepaths[1], files, size, overlap, salt)
  ELSE LET half == Len(filepaths) \div 2
       IN  allFileRecords(SubSeq(filepaths, 1, half), files, size, overlap, salt)
             \o allFileRecords(SubSeq(filepaths, half + 1, Len(filepaths)),
                               files, size, overlap, salt)

\* The vector the embedding collaborator computes for a text.
Vec(text) == <<"vec">> \o text

\* embed(texts) when it resolves: one vector per text, in the order of texts.
embed(texts) == [j \in 1..Len(texts) |-> Vec(texts[j])]

\* allRecords.slice(i, i + batchSize) and its texts.
embedBatch(records, i) == Slice(records, i, i + EmbedBatchSize)
batchTexts(batch) == [j \in 1..Len(batch) |-> batch[j].text]

\* A plausible slip: the vectors are written to allRecords[j], not batch[j].
assignEmbeddingsNoOffset(records, i) ==
  LET batch      == embedBatch(records, i)
      embeddings == embed(batchTexts(batch))
  IN  [k \in 1..Len(records) |->
         IF k <= Len(batch)
         THEN [records[k] EXCEPT !.values = embeddings[k]]
         ELSE records[k]]

\* One resolved embed(texts) call for the batch starting at offset i: the
\* j-th vector goes to the j-th record of the batch, which is allRecords[i + j].
assignEmbeddings(records, i) ==
  LET batch      == embedBatch(records, i)
      embeddings == embed(batchTexts(batch))
  IN  [k \in 1..Len(records) |->
         IF k > i /\ k <= i + Len(batch)
         THEN [records[k] EXCEPT !.values = embeddings[k - i]]
         ELSE records[k]]

\* namespace(ns).upsert(batch): a record replaces the stored one with its id.
\* A plausible slip: the namespace is emptied before the records are written.
upsertRecordsReplaceAll(stored, records) ==
  LET ids == {records[k].id : k \in 1..Len(records)}
      lastAt(id) == CHOOSE k \in 1..Len(records) :
                      /\ records[k].id = id
                      /\ \A j \in (k + 1)..Len(records) : records[j].id # id
  IN  [id \in ids |-> records[lastAt(id)]]

upsertRecords(stored, records) ==
  LET ids == {records[k].id : k \in 1..Len(records)}
      lastAt(id) == CHOOSE k \in 1..Len(records) :
                      /\ records[k].id = id
                      /\ \A j \in (k + 1)..Len(records) : records[j].id # id
  IN  [id \in DOMAIN stored \cup ids |->
         IF id \in ids THEN records[lastAt(id)] ELSE stored[id]]

EmptyNamespace == [id \in {} |-> 0]

(***************************************************************************)
(* State.                                                                  *)
(***************************************************************************)
VARIABLES
  cIn,    \* arguments of the chunkText call under study
  cOut,   \* its result; called = FALSE before the call
  pIn,    \* arguments of the packContext call under study
  pOut,   \* its result; called = FALSE before the call
  askCw,  \* the ContextWindow handle whose ask is under study
  ask,    \* the ask call in progress on askCw
  registry, \* the registry Map, as its entries [name, cw] in insertion order
  handles,  \* the ContextWindow objects made so far; a cw is an index into it
  creates,  \* the createCtxWindow calls made so far, each with its position
  last,     \* the registry operation that ran last, with its result
  fs,       \* the file system ingestPaths reads: path -> node
  chunkCfg, \* the chunkSize and chunkOverlap ingestPaths is called with
  store,    \* the vector store: namespace -> (record id -> record)
  ing,      \* the ingestPaths call in progress
  runs,     \* the ingestPaths calls that have settled, oldest first
  idx,      \* the ensurePineconeIndex call in progress and the index it provisions
  norm      \* the createContextWindow options under study and their normal form

chunkVars == <<cIn, cOut>>
packVars  == <<pIn, pOut>>
askVars   == <<askCw, ask>>
regVars   == <<registry, handles, creates, last>>
ingVars   == <<fs, chunkCfg, store, ing, runs>>
idxVars   == <<idx>>
optVars   == <<norm>>
vars == <<cIn, cOut, pIn, pOut, askCw, ask, registry, handles, creates, last,
          fs, chunkCfg, store, ing, runs, idx, norm>>

(***************************************************************************)
(* Specification of the chunker: every input within the bounds, one call.  *)
(***************************************************************************)
ChunkAlphabet == {"a", "b"}
ChunkTexts == SeqsUpTo(ChunkAlphabet, MaxTextLen)

NoChunkIn  == [text |-> <<>>, size |-> 1, overlap |-> 0]
NoChunkOut == [called |-> FALSE, chunks |-> <<>>, returned |-> FALSE]
NoPackIn   == [matches |-> <<>>, maxContextChars |-> 1]
NoPackOut  == [called |-> FALSE, context |-> <<>>, sources |-> <<>>,
               chunks |-> <<>>]

NoResult == [text |-> "", sources |-> <<>>]
NoChat == [model |-> "", system |-> <<>>, user |-> ""]
NoAsk == [pc |-> "idle", question |-> "", response |-> <<>>, matches |-> <<>>,
          context |-> <<>>, sources |-> <<>>, calls |-> <<>>,
          chat |-> NoChat, answer |-> "",
          result |-> NoResult, error |-> ""]

NoOptions == [aiModel |-> NoStr, namespace |-> NoStr, topK |-> NoNum,
              maxContextChars |-> NoNum, scoreThreshold |-> NoNum]
NoLast == [op |-> "none", name |-> "", options |-> NoOptions, had |-> FALSE,
           threw |-> FALSE, cw |-> 0, bool |-> FALSE, names |-> <<>>]

StoreNamespaces == {"a", "b"}
EmptyStore == [ns \in StoreNamespaces |-> EmptyNamespace]
NoFs == [path \in {} |-> 0]
NoIngest ==
  [pc |-> "idle", inputs |-> <<>>, namespace |-> "", files |-> <<>>,
   allRecords |-> <<>>, i |-> 0, embedCalls |-> <<>>, upsertCalls |-> <<>>,
   outcome |-> ""]
NoIndexCall ==
  [pc |-> "idle", exists |-> FALSE, found |-> FALSE, created |-> 0, polls |-> 0,
   attempts |-> 0, ready |-> FALSE, error |-> "", calls |-> 0]
NoCreateOptions ==
  [indexName |-> NoStr, namespace |-> NoStr, data |-> <<>>, aiModel |-> NoStr,
   vsNamespace |-> NoStr, chunkSize |-> NoNum, chunkOverlap |-> NoNum,
   topK |-> NoNum, maxContextChars |-> NoNum, scoreThreshold |-> NoNum]
NoNorm == [pc |-> "idle", opts |-> NoCreateOptions, config |-> [threw |-> FALSE]]
IdleIndex == idx = NoIndexCall
IdleOptions == norm = NoNorm
IdleChunk == cIn = NoChunkIn /\ cOut = NoChunkOut
IdlePack  == pIn = NoPackIn /\ pOut = NoPackOut
IdleAsk   == askCw = NoHandle /\ ask = NoAsk
IdleRegistry ==
  registry = <<>> /\ handles = <<>> /\ creates = <<>> /\ last = NoLast
IdleIngest ==
  /\ fs = NoFs /\ chunkCfg = [size |-> 1, overlap |-> 0]
  /\ store = EmptyStore /\ ing = NoIngest /\ runs = <<>>

InitChunk ==
  /\ cIn \in [text : ChunkTexts, size : 1..MaxSize, overlap : 0..MaxSize]
  /\ cOut = NoChunkOut
  /\ IdlePack
  /\ IdleAsk
  /\ IdleRegistry
  /\ IdleIngest
  /\ IdleIndex
  /\ IdleOptions

ChunkTextCall ==
  /\ ~cOut.called
  /\ LET r == chunkText(cIn.text, cIn.size, cIn.overlap)
     IN  cOut' = [called |-> TRUE, chunks |-> r.chunks, returned |-> r.returned]
  /\ UNCHANGED <<cIn, packVars, askVars, regVars, ingVars, idxVars, optVars>>

NextChunk == ChunkTextCall

SpecChunk == InitChunk /\ [][NextChunk]_vars

(***************************************************************************)
(* Specification of the packer: every match list within the bounds.        *)
(***************************************************************************)
\* Match texts: "a" repeated 0..MaxMatchLen times, and blank texts.
MatchTexts == {[i \in 1..n |-> "a"] : n \in 0..MaxMatchLen} \cup {<<" ">>, <<" ", " ">>}
Sources == {"s1", "s2"}
PackMatches == [text : MatchTexts, source : Sources]

InitPack ==
  /\ pIn \in [matches : SeqsUpTo(PackMatches, MaxMatches),
              maxContextChars : 1..MaxBudget]
  /\ pOut = NoPackOut
  /\ IdleChunk
  /\ IdleAsk
  /\ IdleRegistry
  /\ IdleIngest
  /\ IdleIndex
  /\ IdleOptions

PackContextCall ==
  /\ ~pOut.called
  /\ LET r == packContext(pIn.matches, pIn.maxContextChars)
         s == packSelect(pIn.matches, pIn.maxContextChars)
     IN  pOut' = [called |-> TRUE, context |-> r.context, sources |-> r.sources,
                  chunks |-> s.chunks]
  /\ UNCHANGED <<pIn, chunkVars, askVars, regVars, ingVars, idxVars, optVars>>

NextPack == PackContextCall

SpecPack == InitPack /\ [][NextPack]_vars

(***************************************************************************)
(* Specification of ask: one handle, built by either constructor from      *)
(* options within the bounds, and a sequence of ask calls on it.  The      *)
(* collaborators (embed, the index query, chat) resolve with any value of  *)
(* their range or reject.                                                  *)
(***************************************************************************)
Namespaces == {"a", "b"}
Questions == {"q1", "q2"}
Answers == {"answer", "", IDontKnow}
Scores == {NoNum, Some(1), Some(2)}
RawTexts == {NoStr, Some(<<" ">>), Some(<<"a">>), Some(<<"a", "a">>)}
RawSources == {NoStr, Some("s1")}
RawMatches == [score : Scores, text : RawTexts, source : RawSources]
MaxAskMatches == MaxMatches - 1

\* Every choice of model and limits for the default namespace, and the
\* defaults for another namespace.
AskOptions ==
  [aiModel : {NoStr, Some("gpt-4")}, namespace : {NoStr},
   topK : {NoNum, Some(1)}, maxContextChars : {NoNum, Some(1)},
   scoreThreshold : {NoNum, Some(2)}]
    \cup {[NoOptions EXCEPT !.namespace = Some("b")]}

CreateOptions(o) ==
  [indexName |-> Some("a"), namespace |-> Some("a"), data |-> <<"f">>,
   aiModel |-> o.aiModel, vsNamespace |-> o.namespace,
   chunkSize |-> NoNum, chunkOverlap |-> NoNum, topK |-> o.topK,
   maxContextChars |-> o.maxContextChars, scoreThreshold |-> o.scoreThreshold]

AskHandles ==
  {createContextWindowWithoutIngestion("a", o) : o \in AskOptions}
    \cup {IngestedHandle(normalizeOptions(CreateOptions(o))) : o \in AskOptions}

InitAsk ==
  /\ askCw \in AskHandles
  /\ ask = NoAsk
  /\ IdleChunk
  /\ IdlePack
  /\ IdleRegistry
  /\ IdleIngest
  /\ IdleIndex
  /\ IdleOptions

\* ask(question) is entered on one of the handles of the program: the next
\* await is embed([question]).  askCw is the handle of the call in progress.
AskCall ==
  /\ ask.pc = "idle"
  /\ \E q \in Questions : ask' = [NoAsk EXCEPT !.pc = "embed", !.question = q]
  /\ askCw' \in AskHandles
  /\ UNCHANGED <<chunkVars, packVars, regVars, ingVars, idxVars, optVars>>

\* await embed([question]) settles.
AskEmbed ==
  /\ ask.pc = "embed"
  /\ \/ ask' = [ask EXCEPT !.pc = "query", !.calls = Append(@, "embed")]
     \/ ask' = [ask EXCEPT !.pc = "rejected", !.calls = Append(@, "embed"),
                           !.error = "embed"]
  /\ UNCHANGED <<askCw, chunkVars, packVars, regVars, ingVars, idxVars, optVars>>

\* await query(...) settles; on success the context is packed and either the
\* fixed answer is returned or the chat call is issued.
AskQuery ==
  /\ ask.pc = "query"
  /\ \/ \E response \in SeqsUpTo(RawMatches, MaxAskMatches) :
          /\ Len(response) <= askCw.config.topK
          /\ LET matches == createPineconeQuery(response, askCw.config.scoreThreshold)
                 packed  == packContext(matches, askCw.config.maxContextChars)
                 queried == [ask EXCEPT !.calls = Append(@, "query"),
                                        !.response = response,
                                        !.matches = matches,
                                        !.context = packed.context,
                                        !.sources = packed.sources]
             IN  IF ContextIsBlank(packed.context)
                 THEN ask' = [queried EXCEPT !.pc = "done",
                                !.result = [text |-> IDontKnow, sources |-> <<>>]]
                 ELSE ask' = [queried EXCEPT !.pc = "chat",
                                !.chat = chatRequest(askCw.config.aiModel,
                                                     packed.context, ask.question)]
     \/ ask' = [ask EXCEPT !.pc = "rejected", !.calls = Append(@, "query"),
                           !.error = "query"]
  /\ UNCHANGED <<askCw, chunkVars, packVars, regVars, ingVars, idxVars, optVars>>

\* A plausible slip: a rejected chat call is answered with the fixed text.
AskChatFallback ==
  /\ ask.pc = "chat"
  /\ \/ \E answer \in Answers :
          ask' = [ask EXCEPT !.pc = "done", !.calls = Append(@, "chat"),
                             !.answer = answer,
                             !.result = [text |-> answer, sources |-> ask.sources]]
     \/ ask' = [ask EXCEPT !.pc = "done", !.calls = Append(@, "chat"),
                           !.error = "chat",
                           !.result = [text |-> IDontKnow, sources |-> <<>>]]
  /\ UNCHANGED <<askCw, chunkVars, packVars, regVars, ingVars, idxVars, optVars>>

\* await chat({model, system, user}) settles.
AskChat ==
  /\ ask.pc = "chat"
  /\ \/ \E answer \in Answers :
          ask' = [ask EXCEPT !.pc = "done", !.calls = Append(@, "chat"),
                             !.answer = answer,
                             !.result = [text |-> answer, sources |-> ask.sources]]
     \/ ask' = [ask EXCEPT !.pc = "rejected", !.calls = Append(@, "chat"),
                           !.error = "chat"]
  /\ UNCHANGED <<askCw, chunkVars, packVars, regVars, ingVars, idxVars, optVars>>

\* The caller has taken the result; the handle is ready for the next call.
AskSettled ==
  /\ ask.pc \in {"done", "rejected"}
  /\ ask' = NoAsk
  /\ UNCHANGED <<askCw, chunkVars, packVars, regVars, ingVars, idxVars, optVars>>

NextAsk == AskCall \/ AskEmbed \/ AskQuery \/ AskChat \/ AskSettled

SpecAsk == InitAsk /\ [][NextAsk]_vars

(***************************************************************************)
(* Specification of the registry: createCtxWindow calls, suspended at      *)
(* their awaits, interleaved with the synchronous registry operations.     *)
(***************************************************************************)
MaxCreates == 1
MaxHandles == 2

Names == {"a", "b"}

GetOptions == {NoOptions, [NoOptions EXCEPT !.namespace = Some("b")]}

\* The option values createCtxWindow is called with: the name given as
\* indexName and as namespace, as only one of the two, with a custom vector
\* namespace, and without data paths.
RegistryCreateOptions ==
  {[NoCreateOptions EXCEPT !.indexName = Some("a"), !.namespace = Some("a"),
                           !.data = <<"f">>],
   [NoCreateOptions EXCEPT !.indexName = Some("b"), !.namespace = Some("b"),
                           !.vsNamespace = Some("a"), !.data = <<"f">>],
   [NoCreateOptions EXCEPT !.indexName = Some("a"), !.data = <<"f">>],
   [NoCreateOptions EXCEPT !.namespace = Some("a"), !.data = <<"f">>],
   [NoCreateOptions EXCEPT !.indexName = Some("a"), !.namespace = Some("a")]}

InitRegistry ==
  /\ registry = <<>>
  /\ handles = <<>>
  /\ creates = <<>>
  /\ last = NoLast
  /\ IdleChunk
  /\ IdlePack
  /\ IdleAsk
  /\ IdleIngest
  /\ IdleIndex
  /\ IdleOptions

Op(op, name) == [NoLast EXCEPT !.op = op, !.name = name]

\* createCtxWindow(opts) is called: createContextWindow runs normalizeOptions
\* and, unless that throws, suspends at await ensurePineconeIndex(1536).
CreateCtxWindowCallOver(optionSet, maxCreates) ==
  /\ Len(creates) < maxCreates
  /\ \E opts \in optionSet :
       LET config == normalizeOptions(opts)
       IN  creates' = Append(creates,
             IF config.threw
             THEN [pc |-> "rejected", opts |-> opts, cw |-> 0, error |-> config.error]
             ELSE [pc |-> "ensureIndex", opts |-> opts, cw |-> 0, error |-> ""])
  /\ last' = Op("createCtxWindow:call", "")
  /\ UNCHANGED <<registry, handles, chunkVars, packVars, askVars, ingVars, idxVars, optVars>>

CreateCtxWindowCall == CreateCtxWindowCallOver(RegistryCreateOptions, MaxCreates)

\* await ensurePineconeIndex settles; on success ingestPaths is called.
CreateEnsureIndex ==
  /\ \E c \in 1..Len(creates) :
       /\ creates[c].pc = "ensureIndex"
       /\ \/ /\ creates' = [creates EXCEPT ![c].pc = "ingest"]
             /\ last' = Op("createCtxWindow:ensurePineconeIndex", "")
          \/ /\ creates' = [creates EXCEPT ![c].pc = "rejected",
                              ![c].error = "Failed to ensure Pinecone index"]
             /\ last' = [Op("createCtxWindow:rejected", "") EXCEPT
                           !.had = RegistryHas(registry, creates[c].opts.namespace)]
  /\ UNCHANGED <<registry, handles, chunkVars, packVars, askVars, ingVars, idxVars, optVars>>

\* await ingestPaths settles; on success createContextWindow builds the handle
\* and resolves.
CreateIngestOver(maxHandles) ==
  /\ \E c \in 1..Len(creates) :
       /\ creates[c].pc = "ingest"
       /\ \/ /\ Len(handles) < maxHandles
             /\ handles' = Append(handles,
                   IngestedHandle(normalizeOptions(creates[c].opts)))
             /\ creates' = [creates EXCEPT ![c].pc = "register",
                              ![c].cw = Len(handles) + 1]
             /\ last' = Op("createCtxWindow:ingestPaths", "")
          \/ /\ handles' = handles
             /\ creates' = [creates EXCEPT ![c].pc = "rejected",
                              ![c].error = "ingestPaths rejected"]
             /\ last' = [Op("createCtxWindow:rejected", "") EXCEPT
                           !.had = RegistryHas(registry, creates[c].opts.namespace)]
  /\ UNCHANGED <<registry, chunkVars, packVars, askVars, ingVars, idxVars, optVars>>

CreateIngest == CreateIngestOver(MaxHandles)

\* createCtxWindow resumes after await createContextWindow(opts).
CreateRegister ==
  /\ \E c \in 1..Len(creates) :
       /\ creates[c].pc = "register"
       /\ registry' = createCtxWindowRegister(registry, creates[c].opts, creates[c].cw)
       /\ creates' = [creates EXCEPT ![c].pc = "done"]
       /\ last' = [Op("createCtxWindow:registry.set", "") EXCEPT
                     !.cw = creates[c].cw,
                     !.had = RegistryHas(registry, creates[c].opts.namespace)]
  /\ UNCHANGED <<handles, chunkVars, packVars, askVars, ingVars, idxVars, optVars>>

GetCtxWindowOver(optionSet, maxHandles) ==
  /\ \E name \in Names, options \in optionSet :
       LET r == getCtxWindow(registry, handles, name, options)
       IN  /\ Len(r.handles) <= maxHandles
           /\ registry' = r.registry
           /\ handles' = r.handles
           /\ last' = [Op("getCtxWindow", name) EXCEPT
                         !.options = options, !.cw = r.cw, !.threw = r.threw,
                         !.had = RegistryHas(registry, Some(name))]
  /\ UNCHANGED <<creates, chunkVars, packVars, askVars, ingVars, idxVars, optVars>>

GetCtxWindow == GetCtxWindowOver(GetOptions, MaxHandles)

HasCtxWindow ==
  /\ \E name \in Names :
       last' = [Op("hasCtxWindow", name) EXCEPT
                  !.bool = hasCtxWindow(registry, name)]
  /\ UNCHANGED <<registry, handles, creates, chunkVars, packVars, askVars, ingVars, idxVars, optVars>>

DeleteCtxWindow ==
  /\ \E name \in Names :
       /\ registry' = deleteCtxWindow(registry, name).registry
       /\ last' = [Op("deleteCtxWindow", name) EXCEPT
                     !.bool = deleteCtxWindow(registry, name).ret,
                     !.had = RegistryHas(registry, Some(name))]
  /\ UNCHANGED <<handles, creates, chunkVars, packVars, askVars, ingVars, idxVars, optVars>>

ClearCtxWindows ==
  /\ registry' = <<>>
  /\ last' = Op("clearCtxWindows", "")
  /\ UNCHANGED <<handles, creates, chunkVars, packVars, askVars, ingVars, idxVars, optVars>>

ListCtxWindows ==
  /\ last' = [Op("listCtxWindows", "") EXCEPT !.names = listCtxWindows(registry)]
  /\ UNCHANGED <<registry, handles, creates, chunkVars, packVars, askVars, ingVars, idxVars, optVars>>

Next ==
  \/ CreateCtxWindowCall \/ CreateEnsureIndex \/ CreateIngest \/ CreateRegister
  \/ GetCtxWindow \/ HasCtxWindow \/ DeleteCtxWindow \/ ClearCtxWindows
  \/ ListCtxWindows

Spec == InitRegistry /\ [][Next]_vars

(***************************************************************************)
(* Specification of concurrent registration: several createCtxWindow calls *)
(* for one namespace in flight at once, interleaved with getCtxWindow,     *)
(* deleteCtxWindow and clearCtxWindows.                                    *)
(***************************************************************************)
MaxRaceCreates == 2
MaxRaceHandles == 3

RaceCreateOptions ==
  {[NoCreateOptions EXCEPT !.indexName = Some("a"), !.namespace = Some("a"),
                           !.data = <<"f">>]}

CreateRaceCall == CreateCtxWindowCallOver(RaceCreateOptions, MaxRaceCreates)
CreateRaceIngest == CreateIngestOver(MaxRaceHandles)
GetRace == GetCtxWindowOver({NoOptions}, MaxRaceHandles)

NextRace ==
  \/ CreateRaceCall \/ CreateEnsureIndex \/ CreateRaceIngest \/ CreateRegister
  \/ GetRace \/ DeleteCtxWindow \/ ClearCtxWindows

SpecRace == InitRegistry /\ [][NextRace]_vars

(***************************************************************************)
(* Specification of ingestion: a file system within the bounds, left       *)
(* unchanged, and a sequence of ingestPaths calls over it.  The embedding  *)
(* collaborator and the store resolve or reject.                           *)
(***************************************************************************)
MaxRuns == 2

TextEmpty  == <<>>
TextBlank  == <<" ", " ">>
TextShort  == <<"a", "b">>
TextLong   == <<"a", " ", " ", "b", "a">>
Unreadable == FileNode(FALSE, TextShort)
ContentsA == {Unreadable, FileNode(TRUE, TextEmpty), FileNode(TRUE, TextLong)}
ContentsB ==
  {Unreadable} \cup {FileNode(TRUE, t) : t \in {TextEmpty, TextBlank, TextShort, TextLong}}
ContentsC == {FileNode(TRUE, TextBlank), FileNode(TRUE, TextShort)}

\* a.txt, and the directory d holding b.md, c.txt and the unsupported n.jpg.
FileSystems ==
  {[path \in {PathA, PathD, PathB, PathC, PathN} |->
      CASE path = PathA -> a
        [] path = PathB -> b
        [] path = PathC -> c
        [] path = PathN -> FileNode(TRUE, TextShort)
        [] OTHER        -> DirNode(<<NameB, NameC, NameN>>)] :
     a \in ContentsA, b \in ContentsB, c \in ContentsC}

ChunkConfigs == {[size |-> 2, overlap |-> 1], [size |-> 3, overlap |-> 0]}

\* The namespace every call of a behaviour ingests into.
IngestNamespace == "a"

\* a.txt named often enough for its chunks to need more than one batch.
ManyInputs == [k \in 1..((EmbedBatchSize \div 2) + 1) |-> PathA]

IngestInputs ==
  {<<PathA>>, <<PathD>>, <<PathA, PathD>>, <<PathA, PathA>>, <<PathA, PathZ>>,
   <<PathN>>}

\* The calls of the specification of batching: one of them spans batches.
BatchInputs == {ManyInputs, <<PathA, PathD>>, <<PathA, PathZ>>}

InitIngest ==
  /\ fs \in FileSystems
  /\ chunkCfg \in ChunkConfigs
  /\ store = EmptyStore
  /\ ing = NoIngest
  /\ runs = <<>>
  /\ IdleChunk
  /\ IdlePack
  /\ IdleAsk
  /\ IdleRegistry
  /\ IdleIndex
  /\ IdleOptions

RecordIds(records) == {records[k].id : k \in 1..Len(records)}

\* ingestPaths up to its first return: collectFiles and the empty check.
IngestPathsCallOver(inputSet, maxRuns) ==
  /\ ing.pc = "idle"
  /\ Len(runs) < maxRuns
  /\ \E inputs \in inputSet :
       LET c    == collectFiles(inputs, fs)
           call == [NoIngest EXCEPT !.inputs = inputs, !.namespace = IngestNamespace]
       IN  ing' = IF c.threw
                  THEN [call EXCEPT !.pc = "rejected", !.outcome = "statFailed"]
                  ELSE IF Len(c.files) = 0
                  THEN [call EXCEPT !.pc = "resolved", !.outcome = "noFiles"]
                  ELSE [call EXCEPT !.pc = "read", !.files = c.files]
  /\ UNCHANGED <<fs, chunkCfg, store, runs, chunkVars, packVars, askVars, regVars, idxVars, optVars>>

IngestPathsCall == IngestPathsCallOver(IngestInputs, MaxRuns)

\* What the README describes: a file that an earlier completed call has
\* ingested is left out, only the other files are read.
IngestReadFilesOnlyNew ==
  /\ ing.pc = "read"
  /\ LET seen == UNION {{runs[r].files[k] : k \in 1..Len(runs[r].files)} :
                         r \in {q \in 1..Len(runs) : runs[q].outcome = "upserted"}}
         fresh(f) == f \notin seen
         allRecords == allFileRecords(SelectSeq(ing.files, fresh), fs, chunkCfg.size,
                                      chunkCfg.overlap, Len(runs) + 1)
     IN  ing' = IF Len(allRecords) = 0
                THEN [ing EXCEPT !.pc = "resolved", !.outcome = "noChunks"]
                ELSE [ing EXCEPT !.pc = "embed", !.allRecords = allRecords, !.i = 0]
  /\ UNCHANGED <<fs, chunkCfg, store, runs, chunkVars, packVars, askVars, regVars, idxVars, optVars>>

\* The loop over the collected files and the check that follows it.
IngestReadFiles ==
  /\ ing.pc = "read"
  /\ LET allRecords == allFileRecords(ing.files, fs, chunkCfg.size,
                                      chunkCfg.overlap, Len(runs) + 1)
     IN  ing' = IF Len(allRecords) = 0
                THEN [ing EXCEPT !.pc = "resolved", !.outcome = "noChunks"]
                ELSE [ing EXCEPT !.pc = "embed", !.allRecords = allRecords, !.i = 0]
  /\ UNCHANGED <<fs, chunkCfg, store, runs, chunkVars, packVars, askVars, regVars, idxVars, optVars>>

\* The texts the pass of the embedding loop at offset ing.i hands to embed.
EmbedTexts == batchTexts(embedBatch(ing.allRecords, ing.i))

\* A plausible slip: a rejected embed(texts) is logged and the loop goes on,
\* the records of the batch keeping their placeholder vectors.
IngestEmbedBatchSwallow ==
  /\ ing.pc = "embed"
  /\ \/ ing' = [ing EXCEPT !.allRecords = assignEmbeddings(ing.allRecords, ing.i),
                           !.embedCalls = Append(ing.embedCalls, EmbedTexts),
                           !.i = ing.i + EmbedBatchSize,
                           !.pc = IF ing.i + EmbedBatchSize < Len(ing.allRecords)
                                  THEN "embed" ELSE "upsert"]
     \/ ing' = [ing EXCEPT !.i = ing.i + EmbedBatchSize,
                           !.embedCalls = Append(ing.embedCalls, EmbedTexts),
                           !.outcome = "embedFailed",
                           !.pc = IF ing.i + EmbedBatchSize < Len(ing.allRecords)
                                  THEN "embed" ELSE "upsert"]
  /\ UNCHANGED <<fs, chunkCfg, store, runs, chunkVars, packVars, askVars, regVars, idxVars, optVars>>

\* One pass of the embedding loop: embed(texts) resolves or rejects.
IngestEmbedBatch ==
  /\ ing.pc = "embed"
  /\ \/ ing' = [ing EXCEPT !.allRecords = assignEmbeddings(ing.allRecords, ing.i),
                           !.embedCalls = Append(ing.embedCalls, EmbedTexts),
                           !.i = ing.i + EmbedBatchSize,
                           !.pc = IF ing.i + EmbedBatchSize < Len(ing.allRecords)
                                  THEN "embed" ELSE "upsert"]
     \/ ing' = [ing EXCEPT !.pc = "rejected", !.outcome = "embedFailed",
                           !.embedCalls = Append(ing.embedCalls, EmbedTexts)]
  /\ UNCHANGED <<fs, chunkCfg, store, runs, chunkVars, packVars, askVars, regVars, idxVars, optVars>>

\* upsert(allRecords, namespace): batches of UpsertBatchSize are written in
\* order; the write of batch failAt rejects (0: none does).
IngestUpsert ==
  /\ ing.pc = "upsert"
  /\ LET records  == ing.allRecords
         nBatches == (Len(records) + UpsertBatchSize - 1) \div UpsertBatchSize
     IN  \E failAt \in 0..nBatches :
           LET written == IF failAt = 0 THEN records
                          ELSE SubSeq(records, 1, (failAt - 1) * UpsertBatchSize)
           IN  /\ store' = [store EXCEPT ![ing.namespace] =
                               upsertRecords(store[ing.namespace], written)]
               /\ ing' = [ing EXCEPT
                            !.upsertCalls = Append(ing.upsertCalls, RecordIds(records)),
                            !.pc = IF failAt = 0 THEN "resolved" ELSE "rejected",
                            !.outcome = IF failAt = 0 THEN "upserted" ELSE "upsertFailed"]
  /\ UNCHANGED <<fs, chunkCfg, runs, chunkVars, packVars, askVars, regVars, idxVars, optVars>>

\* The promise of ingestPaths has settled; the call is recorded.
IngestSettled ==
  /\ ing.pc \in {"resolved", "rejected"}
  /\ runs' = Append(runs, [inputs      |-> ing.inputs,
                           namespace   |-> ing.namespace,
                           files       |-> ing.files,
                           outcome     |-> ing.outcome,
                           upsertCalls |-> ing.upsertCalls,
                           storeIds    |-> DOMAIN store[ing.namespace]])
  /\ ing' = NoIngest
  /\ UNCHANGED <<fs, chunkCfg, store, chunkVars, packVars, askVars, regVars, idxVars, optVars>>

NextIngest ==
  IngestPathsCall \/ IngestReadFiles \/ IngestEmbedBatch \/ IngestUpsert \/ IngestSettled

SpecIngest == InitIngest /\ [][NextIngest]_vars

(***************************************************************************)
(* Specification of batching: ingestPaths calls whose records span more    *)
(* than one embedding batch and more than one upsert batch.                *)
(***************************************************************************)
MaxBatchRuns == 1

IngestBatchesCall == IngestPathsCallOver(BatchInputs, MaxBatchRuns)

NextBatch ==
  IngestBatchesCall \/ IngestReadFiles \/ IngestEmbedBatch \/ IngestUpsert \/ IngestSettled

SpecBatch == InitIngest /\ [][NextBatch]_vars

(***************************************************************************)
(* Specification of ingesting again: between ingestPaths calls a.txt is    *)
(* rewritten, to a longer or a shorter text.                               *)
(***************************************************************************)
MaxReingests == 2

ReingestInputs == {<<PathA>>, <<PathA, PathD>>}
RewrittenContents == {FileNode(TRUE, TextShort), FileNode(TRUE, TextLong)}

IngestAgainCall == IngestPathsCallOver(ReingestInputs, MaxReingests)

\* Outside the program: a.txt is given another content while no call runs.
RewriteFile ==
  /\ ing.pc = "idle"
  /\ runs # <<>>
  /\ Len(runs) < MaxReingests
  /\ \E content \in RewrittenContents \ {fs[PathA]} :
       fs' = [fs EXCEPT ![PathA] = content]
  /\ UNCHANGED <<chunkCfg, store, ing, runs, chunkVars, packVars, askVars, regVars, idxVars, optVars>>

NextReingest ==
  \/ IngestAgainCall \/ IngestReadFiles \/ IngestEmbedBatch \/ IngestUpsert
  \/ IngestSettled \/ RewriteFile

SpecReingest == InitIngest /\ [][NextReingest]_vars

(***************************************************************************)
(* Specification of index provisioning: ensurePineconeIndex calls against  *)
(* a Pinecone project in which the index exists or not.  Every request to  *)
(* Pinecone resolves or rejects.                                           *)
(***************************************************************************)
MaxEnsures == 2
MaxAttempts == 30

IndexRunning == {"list", "create", "poll"}
IndexSettled == {"resolved", "rejected"}

\* The catch block: whatever was thrown is wrapped and rethrown.
EnsureFailed(call, error) == [call EXCEPT !.pc = "rejected", !.error = error]

\* A plausible slip: the bound of the loop is inclusive, one poll too many.
pollAgainInclusive(ready, attempts) == ~ready /\ attempts <= MaxAttempts

\* while (!ready && attempts < maxAttempts)
pollAgain(ready, attempts) == ~ready /\ attempts < MaxAttempts

\* The project ensurePineconeIndex meets first: with the index or without.
InitIndex ==
  /\ idx \in {[NoIndexCall EXCEPT !.exists = e] : e \in BOOLEAN}
  /\ IdleOptions
  /\ IdleChunk
  /\ IdlePack
  /\ IdleAsk
  /\ IdleRegistry
  /\ IdleIngest

\* ensurePineconeIndex is called; its counters are local to the call.
EnsureCall ==
  /\ idx.pc \in {"idle"} \cup IndexSettled
  /\ idx.calls < MaxEnsures
  /\ idx' = [NoIndexCall EXCEPT !.pc = "list", !.exists = idx.exists,
                                !.calls = idx.calls + 1]
  /\ UNCHANGED <<chunkVars, packVars, askVars, regVars, ingVars, optVars>>

\* await client.listIndexes() and the test of indexExists.
EnsureListIndexes ==
  /\ idx.pc = "list"
  /\ \/ idx' = [idx EXCEPT !.found = idx.exists,
                           !.pc = IF idx.exists THEN "resolved" ELSE "create"]
     \/ idx' = EnsureFailed(idx, "listIndexes")
  /\ UNCHANGED <<chunkVars, packVars, askVars, regVars, ingVars, optVars>>

\* await client.createIndex(...); the loop is entered with ready = false and
\* attempts = 0.
EnsureCreateIndex ==
  /\ idx.pc = "create"
  /\ \/ idx' = [idx EXCEPT !.created = idx.created + 1, !.exists = TRUE,
                           !.pc = IF pollAgain(FALSE, 0) THEN "poll" ELSE "rejected",
                           !.error = IF pollAgain(FALSE, 0) THEN "" ELSE "timedOut"]
     \/ idx' = EnsureFailed(idx, "createIndex")
  /\ UNCHANGED <<chunkVars, packVars, askVars, regVars, ingVars, optVars>>

\* One pass of the loop: describeIndex, then the sleep and the count when
\* the index is not ready, then the test of the loop and the check after it.
EnsureDescribeIndex ==
  /\ idx.pc = "poll"
  /\ \/ \E ready \in BOOLEAN :
          LET attempts == IF ready THEN idx.attempts ELSE idx.attempts + 1
              polled   == [idx EXCEPT !.polls = idx.polls + 1, !.ready = ready,
                                      !.attempts = attempts]
          IN  idx' = IF pollAgain(ready, attempts) THEN polled
                     ELSE IF ready THEN [polled EXCEPT !.pc = "resolved"]
                     ELSE EnsureFailed(polled, "timedOut")
     \/ idx' = EnsureFailed(idx, "describeIndex")
  /\ UNCHANGED <<chunkVars, packVars, askVars, regVars, ingVars, optVars>>

NextIndex ==
  EnsureCall \/ EnsureListIndexes \/ EnsureCreateIndex \/ EnsureDescribeIndex

SpecIndex == InitIndex /\ [][NextIndex]_vars

\* Every request to Pinecone settles and the continuation after it runs.
SpecIndexFair ==
  /\ SpecIndex
  /\ WF_vars(EnsureListIndexes)
  /\ WF_vars(EnsureCreateIndex)
  /\ WF_vars(EnsureDescribeIndex)

(***************************************************************************)
(* Specification of option handling: createContextWindow is called with    *)
(* option values within the bounds; the options are normalized and, when    *)
(* they are accepted, a text is chunked with the normalized chunk size and  *)
(* overlap, as ingestPaths does for every file.                             *)
(***************************************************************************)
MaxOverlap == 2

OptionalUpTo(n) == {NoNum} \cup {Some(v) : v \in 0..n}

NormOptions ==
  {[NoCreateOptions EXCEPT !.indexName = name, !.data = data,
                           !.chunkSize = size, !.chunkOverlap = overlap,
                           !.topK = topK, !.maxContextChars = chars,
                           !.scoreThreshold = threshold, !.aiModel = model] :
     name \in {NoStr, Some("a")}, data \in {<<>>, <<"f">>},
     size \in OptionalUpTo(MaxSize), overlap \in OptionalUpTo(MaxOverlap),
     topK \in OptionalUpTo(1), chars \in {NoNum, Some(1)},
     threshold \in OptionalUpTo(1), model \in {NoStr, Some("gpt-4")}}

InitOptions ==
  /\ norm = NoNorm
  /\ IdleIndex
  /\ IdleChunk
  /\ IdlePack
  /\ IdleAsk
  /\ IdleRegistry
  /\ IdleIngest

\* createContextWindow up to the end of normalizeOptions.
NormalizeCall ==
  /\ norm.pc = "idle"
  /\ \E opts \in NormOptions :
       LET config == normalizeOptions(opts)
       IN  norm' = [pc     |-> IF config.threw THEN "rejected" ELSE "normalized",
                    opts   |-> opts,
                    config |-> config]
  /\ UNCHANGED <<chunkVars, packVars, askVars, regVars, ingVars, idxVars>>

\* ingestPaths chunks the text of a file with config.chunkSize and
\* config.chunkOverlap.
ChunkWithConfig ==
  /\ norm.pc = "normalized"
  /\ \E text \in ChunkTexts :
       LET r == chunkText(text, norm.config.chunkSize, norm.config.chunkOverlap)
       IN  /\ cIn' = [text |-> text, size |-> norm.config.chunkSize,
                      overlap |-> norm.config.chunkOverlap]
           /\ cOut' = [called |-> TRUE, chunks |-> r.chunks, returned |-> r.returned]
  /\ norm' = [norm EXCEPT !.pc = "chunked"]
  /\ UNCHANGED <<packVars, askVars, regVars, ingVars, idxVars>>

NextOptions == NormalizeCall \/ ChunkWithConfig

SpecOptions == InitOptions /\ [][NextOptions]_vars

(***************************************************************************)
(* Specification of ingesting files whose names hold the characters the    *)
(* record id is assembled with: a.md and, next to it, a.md#0:.md.          *)
(***************************************************************************)
MaxNamedRuns == 1

PathP == <<"a", ".", "m", "d">>
PathQ == PathP \o <<"#", "0", ":", ".", "m", "d">>

TextInner == <<"x">>
TextOuter == <<".", "m", "d", "#", "0", ":", "x">>

NamedFileSystems ==
  {[path \in {PathP, PathQ} |-> IF path = PathP THEN p ELSE q] :
     p \in {Unreadable, FileNode(TRUE, TextOuter), FileNode(TRUE, TextShort)},
     q \in {FileNode(TRUE, TextInner), FileNode(TRUE, TextShort)}}

NamedChunkConfigs == {[size |-> 7, overlap |-> 0], [size |-> 3, overlap |-> 1]}

NamedInputs == {<<PathP>>, <<PathQ>>, <<PathP, PathQ>>, <<PathQ, PathP>>}

InitNamed ==
  /\ fs \in NamedFileSystems
  /\ chunkCfg \in NamedChunkConfigs
  /\ store = EmptyStore
  /\ ing = NoIngest
  /\ runs = <<>>
  /\ IdleChunk
  /\ IdlePack
  /\ IdleAsk
  /\ IdleRegistry
  /\ IdleIndex
  /\ IdleOptions

IngestNamedCall == IngestPathsCallOver(NamedInputs, MaxNamedRuns)

NextNamed ==
  IngestNamedCall \/ IngestReadFiles \/ IngestEmbedBatch \/ IngestUpsert \/ IngestSettled

SpecNamed == InitNamed /\ [][NextNamed]_vars

(***************************************************************************)
(* Claims about the chunker (SpecChunk).                                   *)
(***************************************************************************)
FirstN(s, n) == SubSeq(s, 1, n)
LastN(s, n) == SubSeq(s, Len(s) - n + 1, Len(s))

\* C8: a text no longer than size (length exactly size included) yields exactly
\* one chunk, the whole text; the empty text yields the empty sequence.
C8_ShortTextIsOneChunk ==
  (cOut.called /\ Len(cIn.text) <= cIn.size) =>
     /\ cOut.returned
     /\ cOut.chunks = IF cIn.text = <<>> THEN <<>> ELSE <<cIn.text>>

C8_Witness ==
  /\ cOut.called
  /\ Len(cIn.text) = cIn.size
  /\ cIn.overlap >= cIn.size
  /\ cOut.chunks = <<cIn.text>>

\* C9: for a text longer than size and 0 <= overlap < size, the last overlap
\* characters of every chunk are the first overlap characters of the next one
\* (the final pair included).
C9_ConsecutiveChunksOverlap ==
  (cOut.called /\ Len(cIn.text) > cIn.size /\ cIn.overlap < cIn.size) =>
     /\ cOut.returned
     /\ Len(cOut.chunks) >= 2
     /\ \A i \in 1..(Len(cOut.chunks) - 1) :
          /\ Len(cOut.chunks[i]) >= cIn.overlap
          /\ Len(cOut.chunks[i + 1]) >= cIn.overlap
          /\ LastN(cOut.chunks[i], cIn.overlap) = FirstN(cOut.chunks[i + 1], cIn.overlap)

C9_Witness ==
  /\ cOut.called
  /\ cIn.text = <<"a", "b", "b", "a">>
  /\ cIn.size = 2
  /\ cIn.overlap = 1
  /\ cOut.chunks = << <<"a", "b">>, <<"b", "b">>, <<"b", "a">> >>

(***************************************************************************)
(* Claims about the packer (SpecPack).                                     *)
(***************************************************************************)
SelectedCount == Len(pOut.chunks)

\* C6: the selected matches are exactly the longest prefix of the match list
\* whose summed text length is within maxContextChars: the loop ends at the
\* first match that would overflow, no later match is taken, the total never
\* exceeds the budget, and with no match or an oversized first match the packed
\* text and the sources are empty.
C6_PackSelectsLongestPrefix ==
  pOut.called =>
     /\ SelectedCount <= Len(pIn.matches)
     /\ \A i \in 1..SelectedCount : pOut.chunks[i] = pIn.matches[i].text
     /\ SumLen(pOut.chunks) <= pIn.maxContextChars
     /\ SelectedCount < Len(pIn.matches) =>
          SumLen(pOut.chunks) + Len(pIn.matches[SelectedCount + 1].text)
             > pIn.maxContextChars
     /\ pOut.context = Join(pOut.chunks, ContextSeparator)
     /\ (pIn.matches = <<>> \/ Len(pIn.matches[1].text) > pIn.maxContextChars) =>
          (pOut.context = <<>> /\ pOut.sources = <<>>)

\* A later, smaller match would have fitted and was not taken.
C6_Witness ==
  /\ pOut.called
  /\ SelectedCount = 1
  /\ Len(pIn.matches) = 3
  /\ Len(pIn.matches[2].text) = 2
  /\ Len(pIn.matches[3].text) = 1
  /\ SumLen(pOut.chunks) + 1 <= pIn.maxContextChars

FirstSeenAt(label) ==
  CHOOSE i \in 1..SelectedCount :
    /\ pIn.matches[i].source = label
    /\ \A j \in 1..(i - 1) : pIn.matches[j].source # label

\* C7: sources holds the label of every selected match exactly once, in the
\* order of first appearance among the selected matches, and nothing else.
C7_SourcesFirstSeenUnique ==
  pOut.called =>
     /\ {pOut.sources[i] : i \in 1..Len(pOut.sources)}
          = {pIn.matches[i].source : i \in 1..SelectedCount}
     /\ \A i, j \in 1..Len(pOut.sources) :
          i < j => /\ pOut.sources[i] # pOut.sources[j]
                   /\ FirstSeenAt(pOut.sources[i]) < FirstSeenAt(pOut.sources[j])

\* Sources a, b, a within budget give [a, b]; a fourth, unselected label is absent.
C7_Witness ==
  /\ pOut.called
  /\ SelectedCount = 3
  /\ pIn.matches[1].source = "s1"
  /\ pIn.matches[2].source = "s2"
  /\ pIn.matches[3].source = "s1"
  /\ pOut.sources = <<"s1", "s2">>

(***************************************************************************)
(* Claims about ask (SpecAsk).                                             *)
(***************************************************************************)
ChatCalls == Cardinality({i \in 1..Len(ask.calls) : ask.calls[i] = "chat"})

NoMatchAtOrAboveThreshold ==
  \A i \in 1..Len(ask.response) :
     ~(ask.response[i].score.set
        /\ ask.response[i].score.val >= askCw.config.scoreThreshold)

Queried == \E i \in 1..Len(ask.calls) : ask.calls[i] = "query"

\* C1: when the query has no match at or above the score threshold, ask does
\* not call chat and returns the fixed "I don't know" text with no sources.
C1_NoMatchesNoGeneration ==
  (Queried /\ ask.pc # "rejected" /\ NoMatchAtOrAboveThreshold) =>
     /\ ask.pc = "done"
     /\ ChatCalls = 0
     /\ ask.result = [text |-> IDontKnow, sources |-> <<>>]

\* The index returned a match with non-blank text, the threshold removed it.
C1_Witness ==
  /\ ask.pc = "done"
  /\ NoMatchAtOrAboveThreshold
  /\ Len(ask.response) >= 1
  /\ ask.response[1].score = Some(1)
  /\ ask.response[1].text = Some(<<"a">>)
  /\ askCw.config.scoreThreshold = 2
  /\ ask.result.text = IDontKnow

SameEntry(reg1, reg2, key) ==
  /\ RegistryHas(reg1, key) <=> RegistryHas(reg2, key)
  /\ RegistryHas(reg1, key) => RegistryGet(reg1, key) = RegistryGet(reg2, key)

RegistryKeySpace == {Some(n) : n \in Names} \cup {NoStr}

Upserted(run) == run.outcome = "upserted"

\* C5: ingestion is idempotent.  Two ingestPaths calls with the same inputs,
\* over the same unchanged files and with the same chunk configuration (the
\* file system and the configuration do not change within a behaviour), that
\* both reach upsert pass it the same set of record ids; and when the second
\* call directly follows the first, into the same namespace, and both complete,
\* the set of ids stored in that namespace after the second equals the set
\* after the first.
C5_IngestionIsIdempotent ==
  \A i \in 1..Len(runs) : \A j \in 1..Len(runs) :
    (i < j /\ runs[i].inputs = runs[j].inputs
       /\ runs[i].upsertCalls # <<>> /\ runs[j].upsertCalls # <<>>)
    => /\ runs[j].upsertCalls = runs[i].upsertCalls
       /\ (j = i + 1 /\ runs[i].namespace = runs[j].namespace
             /\ Upserted(runs[i]) /\ Upserted(runs[j]))
          => runs[j].storeIds = runs[i].storeIds

\* Two completed calls in a row with the same inputs into the same namespace,
\* each having passed several ids to upsert.
C5_Witness ==
  /\ Len(runs) = 2
  /\ runs[1].inputs = runs[2].inputs
  /\ runs[1].namespace = runs[2].namespace
  /\ Upserted(runs[1]) /\ Upserted(runs[2])
  /\ Cardinality(runs[2].upsertCalls[1]) >= 2
  /\ Cardinality(runs[2].storeIds) >= 2

\* The files of a call whose extraction throws or yields only whitespace.
ExtractionThrows(f) == ~fs[f].readable
ExtractsNoText(f) == fs[f].readable /\ \A k \in 1..Len(fs[f].text) : IsWhitespace(fs[f].text[k])
SkippedFile(f) == ExtractionThrows(f) \/ ExtractsNoText(f)

\* The ids and the records the files of a call that are not skipped must yield.
KeptFiles(files) == {k \in 1..Len(files) : ~SkippedFile(files[k])}
ChunksOf(f) == chunkText(fs[f].text, chunkCfg.size, chunkCfg.overlap).chunks
ExpectedIds(files) ==
  UNION {{chunkId(files[k], n - 1, ChunksOf(files[k])[n], 0) : n \in 1..Len(ChunksOf(files[k]))} :
           k \in KeptFiles(files)}
ExpectedCount(files) ==
  LET F[k \in 0..Len(files)] ==
        IF k = 0 THEN 0
        ELSE F[k - 1] + (IF SkippedFile(files[k]) THEN 0 ELSE Len(ChunksOf(files[k])))
  IN  F[Len(files)]

PastReadLoop ==
  ing.pc \in {"embed", "upsert"} \/ ing.outcome \in {"embedFailed", "upsertFailed", "upserted"}

\* C10: a collected file whose extraction throws, or whose text is empty or
\* only whitespace, yields no record and does not abort ingestPaths.  Past the
\* loop over the files the records are exactly those of the other files, one
\* per chunk; the call returns early only when no file yields a chunk; it
\* rejects only when stat, embed or upsert does; and when it completes, every
\* chunk of every other file is stored with its embedding.
C10_BadFilesAreSkipped ==
  /\ PastReadLoop
       => /\ RecordIds(ing.allRecords) = ExpectedIds(ing.files)
          /\ Len(ing.allRecords) = ExpectedCount(ing.files)
  /\ ing.outcome = "noChunks" => ExpectedCount(ing.files) = 0
  /\ ing.pc = "read" => ing.outcome = ""
  /\ ing.pc = "rejected" => ing.outcome \in {"statFailed", "embedFailed", "upsertFailed"}
  /\ ing.outcome = "upserted"
       => \A id \in ExpectedIds(ing.files) :
            /\ id \in DOMAIN store[ing.namespace]
            /\ store[ing.namespace][id].values = Vec(store[ing.namespace][id].text)

\* A completed call over a.txt, whose extraction throws, and the directory
\* with a blank c.txt and a b.md that has text.
C10_Witness ==
  /\ ing.outcome = "upserted"
  /\ ing.files = <<PathA, PathB, PathC>>
  /\ ExtractionThrows(PathA)
  /\ ExtractsNoText(PathC)
  /\ ~SkippedFile(PathB)
  /\ ExpectedIds(ing.files) # {}
  /\ ExpectedIds(ing.files) \subseteq DOMAIN store[ing.namespace]

\* C11: a failed embed call is fatal to its ingestPaths call.  The call
\* rejects, it has not invoked upsert, also when earlier batches were
\* embedded, and the step that rejects it leaves the store as it is; the
\* store changes only in a step that invokes upsert.
C11_EmbedFailureIsFatal ==
  /\ [](ing.outcome = "embedFailed" => (ing.pc = "rejected" /\ ing.upsertCalls = <<>>))
  /\ [][/\ ing'.outcome = "embedFailed" => store' = store
        /\ store' # store => Len(ing'.upsertCalls) = Len(ing.upsertCalls) + 1]_vars

\* The embed call of the second batch has failed after the first batch was
\* embedded, and nothing is stored.
C11_Witness ==
  /\ ing.outcome = "embedFailed"
  /\ ing.i >= EmbedBatchSize
  /\ Len(ing.allRecords) > EmbedBatchSize
  /\ ing.allRecords[1].values = Vec(ing.allRecords[1].text)
  /\ ing.allRecords[EmbedBatchSize + 1].values = <<>>
  /\ store = EmptyStore

(***************************************************************************)
(* Further claims about the registry (Spec).                               *)
(***************************************************************************)
\* The name normalizeOptions requires is opts.indexName.
MissingName(opts) == ~opts.indexName.set \/ opts.indexName.val = ""
EmptyData(opts) == Len(opts.data) = 0

HasText(str) == \E k \in 1..Len(str) : ~IsWhitespace(str[k])
Contains(str, part) ==
  \E i \in 0..(Len(str) - Len(part)) : SubSeq(str, i + 1, i + Len(part)) = part

\* C13: when the packed context is not blank, ask calls chat exactly once,
\* after embed and query, with the configured model, a system prompt that
\* contains the packed context and the question as the user text, and it
\* returns the text chat resolved with, unchanged, and the sources of
\* packContext.
C13_NonBlankContextIsAnswered ==
  (Queried /\ HasText(ask.context))
    => /\ ask.pc \in {"chat", "done", "rejected"}
       /\ ask.chat.model = askCw.config.aiModel
       /\ Contains(ask.chat.system, ask.context)
       /\ ask.chat.user = ask.question
       /\ ask.pc = "chat" => ask.calls = <<"embed", "query">>
       /\ ask.pc # "chat" => ask.calls = <<"embed", "query", "chat">>
       /\ ask.pc = "done"
            => /\ ask.result.text = ask.answer
               /\ ask.result.sources =
                    packContext(ask.matches, askCw.config.maxContextChars).sources
               /\ ask.context =
                    packContext(ask.matches, askCw.config.maxContextChars).context

\* An ask with a context of text has returned the answer of chat and a source.
C13_Witness ==
  /\ ask.pc = "done"
  /\ HasText(ask.context)
  /\ ask.calls = <<"embed", "query", "chat">>
  /\ ask.chat.model = "gpt-4"
  /\ ask.result.text = "answer"
  /\ ask.result.sources = <<"s1">>

Collaborators == {"embed", "query", "chat"}
CallsOf(name) == Cardinality({i \in 1..Len(ask.calls) : ask.calls[i] = name})

\* C14: a failure of embed, query or chat rejects the ask call with that
\* failure.  The collaborator is not called again and no answer is returned;
\* no step of ask changes the registry or a handle; and once the rejected call
\* has settled nothing of it is left: the next ask, on the same handle or on
\* a handle of another namespace, starts from the state of a first call.
C14_AskFailureIsIsolated ==
  /\ [](/\ ask.error # "" => (ask.pc = "rejected" /\ ask.result = NoResult)
        /\ \A name \in Collaborators : CallsOf(name) <= 1)
  /\ [][/\ (ask.pc \in Collaborators /\ ask'.error # "")
             => /\ ask'.pc = "rejected"
                /\ ask'.error = ask.pc
                /\ ask'.calls = Append(ask.calls, ask.pc)
        /\ ask.pc = "rejected" => ask' = NoAsk
        /\ ask.pc # "idle" => askCw' = askCw
        /\ registry' = registry /\ handles' = handles /\ store' = store]_vars

\* The chat call of an ask on a handle of namespace "b" has failed.
C14_Witness ==
  /\ ask.pc = "rejected"
  /\ ask.error = "chat"
  /\ ask.calls = <<"embed", "query", "chat">>
  /\ askCw.config.namespace = "b"
  /\ ask.result = NoResult

\* The position of a key in the registry, 0 when it is not there.
KeyPosition(reg, key) ==
  IF \E i \in 1..Len(reg) : reg[i].name = key
  THEN CHOOSE i \in 1..Len(reg) : reg[i].name = key
  ELSE 0

\* C15: deleteCtxWindow(name) returns true exactly when name was registered;
\* in the state it leaves name is not registered, and every other entry has
\* the handle and the place among the entries it had.
C15_DeleteRemovesOnlyTheName ==
  [][last'.op = "deleteCtxWindow" =>
       LET key == Some(last'.name)
       IN  /\ last'.bool = (KeyPosition(registry, key) # 0)
           /\ KeyPosition(registry', key) = 0
           /\ \A k \in RegistryKeySpace \ {key} : SameEntry(registry, registry', k)
           /\ \A k1, k2 \in RegistryKeySpace \ {key} :
                (KeyPosition(registry, k1) # 0 /\ KeyPosition(registry, k2) # 0)
                  => ((KeyPosition(registry, k1) < KeyPosition(registry, k2))
                        <=> (KeyPosition(registry', k1) < KeyPosition(registry', k2)))
           /\ handles' = handles /\ creates' = creates]_vars

\* A registered name was deleted while another name stayed registered.
C15_Witness ==
  /\ last.op = "deleteCtxWindow"
  /\ last.had
  /\ last.bool
  /\ Len(registry) = 1
  /\ ~hasCtxWindow(registry, last.name)

FromCompletedCreate(entry) ==
  /\ handles[entry.cw].ingested
  /\ \E c \in 1..Len(creates) :
       /\ creates[c].cw = entry.cw
       /\ creates[c].pc = "done"
       /\ creates[c].opts.namespace = entry.name

\* The handle of a registry entry is a connection getCtxWindow built.
FromGet(entry) ==
  /\ ~handles[entry.cw].ingested
  /\ \E n \in Names :
       /\ entry.name = Some(n)
       /\ handles[entry.cw] = createContextWindowWithoutIngestion(n, NoOptions)

\* C17: with several createCtxWindow calls for one namespace suspended at
\* their awaits and getCtxWindow, deleteCtxWindow and clearCtxWindows calls
\* running between their steps, the registry stays a map: no name has two
\* entries, every entry holds a handle that exists and that came from a
\* createCtxWindow call whose ingestion completed or from getCtxWindow, and
\* every step changes the registry as one operation of the map does, by
\* setting one key, deleting one key or clearing it.
C17_RegistryIsNeverCorrupted ==
  /\ [](/\ \A i, j \in 1..Len(registry) : registry[i].name = registry[j].name => i = j
        /\ \A i \in 1..Len(registry) :
             /\ registry[i].cw \in 1..Len(handles)
             /\ FromCompletedCreate(registry[i]) \/ FromGet(registry[i]))
  /\ [][\/ registry' = registry
        \/ registry' = <<>>
        \/ \E key \in RegistryKeySpace :
             /\ \A k \in RegistryKeySpace \ {key} : SameEntry(registry, registry', k)
             /\ Len(registry') \in {Len(registry) - 1, Len(registry), Len(registry) + 1}]_vars

\* Two createCtxWindow calls for namespace "a" have completed; the call made
\* first finished its ingestion last, and its handle is the one registered.
C17_Witness ==
  /\ Len(creates) >= 2
  /\ creates[1].pc = "done" /\ creates[2].pc = "done"
  /\ creates[1].opts.namespace = creates[2].opts.namespace
  /\ creates[1].cw > creates[2].cw
  /\ Len(registry) = 1
  /\ registry[1] = [name |-> Some("a"), cw |-> creates[1].cw]

(***************************************************************************)
(* Claims about ingesting again (SpecIngest, SpecReingest).                *)
(***************************************************************************)
FileSet(run) == {run.files[k] : k \in 1..Len(run.files)}
UpsertIds(run) == run.upsertCalls[1]

\* The ids of the chunks of a set of files, as the files are now.
IdsOfFiles(fileSet) ==
  UNION {{chunkId(f, n - 1, ChunksOf(f)[n], 0) : n \in 1..Len(ChunksOf(f))} :
           f \in {g \in fileSet : ~SkippedFile(g)}}

\* Run j ingests the files of the completed run i, unchanged, and new files.
AddsNewFiles(i, j) ==
  /\ i < j
  /\ Upserted(runs[i]) /\ Upserted(runs[j])
  /\ FileSet(runs[i]) \subseteq FileSet(runs[j])
  /\ FileSet(runs[i]) # FileSet(runs[j])

LongChunks == chunkText(TextLong, chunkCfg.size, chunkCfg.overlap).chunks
ShortChunks == chunkText(TextShort, chunkCfg.size, chunkCfg.overlap).chunks
LongIds == {chunkId(PathA, n - 1, LongChunks[n], 0) : n \in 1..Len(LongChunks)}
StaleIds ==
  {chunkId(PathA, n - 1, LongChunks[n], 0) : n \in (Len(ShortChunks) + 1)..Len(LongChunks)}

\* C19: ingestPaths never deletes from the store.  No step removes an id from
\* a namespace or changes a record whose id the step does not write, so every
\* id a completed call has written is still stored after every later call,
\* those of chunk indices a shorter version of the file no longer has included.
C19_StoreNeverShrinks ==
  /\ [](\A r \in 1..Len(runs) :
          Upserted(runs[r]) => UpsertIds(runs[r]) \subseteq DOMAIN store[runs[r].namespace])
  /\ [][\A ns \in StoreNamespaces :
          /\ DOMAIN store[ns] \subseteq DOMAIN store'[ns]
          /\ \A id \in DOMAIN store[ns] :
               (store'[ns][id] # store[ns][id])
                 => (ing.pc = "upsert" /\ id \in RecordIds(ing.allRecords))]_vars

\* a.txt was ingested with the long text, rewritten to the short text and
\* ingested again: the second call wrote fewer ids, and the records of the
\* first call for the chunk indices the short text does not have are stored.
C19_Witness ==
  /\ Len(runs) = 2
  /\ runs[1].files = <<PathA>> /\ runs[2].files = <<PathA>>
  /\ Upserted(runs[1]) /\ Upserted(runs[2])
  /\ fs[PathA].text = TextShort
  /\ UpsertIds(runs[1]) = LongIds
  /\ Cardinality(UpsertIds(runs[2])) < Cardinality(UpsertIds(runs[1]))
  /\ StaleIds # {}
  /\ StaleIds \cap UpsertIds(runs[2]) = {}
  /\ StaleIds \subseteq DOMAIN store[IngestNamespace]

(***************************************************************************)
(* Further claims about the chunker (SpecChunk).                           *)
(***************************************************************************)
\* Window k of a text: the characters from offset k * (size - overlap), at
\* most size of them.
WindowStart(k) == k * (cIn.size - cIn.overlap)
WindowEnd(k) == WindowStart(k) + cIn.size
Window(k) ==
  [i \in 1..(Min(WindowEnd(k), Len(cIn.text)) - WindowStart(k)) |->
     cIn.text[WindowStart(k) + i]]

\* C20: for size > 0 and 0 <= overlap < size chunkText returns.  Chunk k
\* (from 0) of a text that is not empty is the window that starts at offset
\* k * (size - overlap); the last chunk is the first window whose end reaches
\* or passes the end of the text, every chunk before it ends inside the text.
C20_WindowsAdvanceAndStop ==
  (cOut.called /\ cIn.size > 0 /\ cIn.overlap >= 0 /\ cIn.overlap < cIn.size)
    => /\ cOut.returned
       /\ cIn.text = <<>> => cOut.chunks = <<>>
       /\ cIn.text # <<>>
            => /\ Len(cOut.chunks) >= 1
               /\ \A k \in 0..(Len(cOut.chunks) - 1) :
                    /\ WindowStart(k) < Len(cIn.text)
                    /\ cOut.chunks[k + 1] = Window(k)
                    /\ (k + 1 < Len(cOut.chunks)) <=> (WindowEnd(k) < Len(cIn.text))

\* A text of four characters cut with size 3 and overlap 1: the second window
\* passes the end of the text and is the last.
C20_Witness ==
  /\ cOut.called
  /\ Len(cIn.text) = 4 /\ cIn.size = 3 /\ cIn.overlap = 1
  /\ Len(cOut.chunks) = 2
  /\ Len(cOut.chunks[2]) = 2
  /\ WindowEnd(1) > Len(cIn.text)

(***************************************************************************)
(* Claims about the embedding loop of ingestPaths (SpecBatch).             *)
(***************************************************************************)
\* The number of batches of at most EmbedBatchSize that n records make, and
\* the records of batch b (from 1).
BatchCount(n) == (n + EmbedBatchSize - 1) \div EmbedBatchSize
BatchOf(records, b) ==
  SubSeq(records, (b - 1) * EmbedBatchSize + 1, Min(b * EmbedBatchSize, Len(records)))

\* The embedding loop is running or has ended, by a rejection or normally.
InEmbedLoop == ing.allRecords # <<>>

\* C21: the pending records are cut, in order, into consecutive batches of at
\* most 100; embed is called once per batch, in order, with the texts of the
\* batch; the j-th vector goes to the j-th record of the batch, so every
\* record handed to upsert, and every record stored, carries the vector
\* computed for its own text.
C21_EachRecordGetsItsOwnVector ==
  /\ InEmbedLoop
       => /\ Len(ing.embedCalls) <= BatchCount(Len(ing.allRecords))
          /\ \A b \in 1..Len(ing.embedCalls) :
                /\ Len(ing.embedCalls[b]) <= EmbedBatchSize
                /\ ing.embedCalls[b] = batchTexts(BatchOf(ing.allRecords, b))
          /\ ing.pc = "embed" => ing.i = Len(ing.embedCalls) * EmbedBatchSize
          /\ ing.pc \in {"embed", "upsert"}
                => \A k \in 1..Min(ing.i, Len(ing.allRecords)) :
                     ing.allRecords[k].values = Vec(ing.allRecords[k].text)
          /\ (ing.pc = "upsert" \/ ing.upsertCalls # <<>>)
                => /\ Len(ing.embedCalls) = BatchCount(Len(ing.allRecords))
                   /\ \A k \in 1..Len(ing.allRecords) :
                        ing.allRecords[k].values = Vec(ing.allRecords[k].text)
  /\ \A id \in DOMAIN store[IngestNamespace] :
       store[IngestNamespace][id].values = Vec(store[IngestNamespace][id].text)

\* More than two hundred records are about to be handed to upsert: embed was
\* called three times, the last time with the short rest, and records of
\* different batches carry different vectors.
C21_Witness ==
  /\ ing.pc = "upsert"
  /\ Len(ing.allRecords) > 2 * EmbedBatchSize
  /\ Len(ing.embedCalls) = 3
  /\ Len(ing.embedCalls[1]) = EmbedBatchSize
  /\ Len(ing.embedCalls[3]) = Len(ing.allRecords) - 2 * EmbedBatchSize
  /\ ing.allRecords[1].values # ing.allRecords[EmbedBatchSize + 2].values
  /\ ing.allRecords[EmbedBatchSize + 2].values
       = Vec(ing.allRecords[EmbedBatchSize + 2].text)

(***************************************************************************)
(* Claims about the file list of ingestPaths (SpecIngest).                 *)
(***************************************************************************)
\* C22: the file list ingestPaths builds names each file at most once, also
\* when an input path is given twice, and names only files whose extension
\* is .txt, .md or .pdf.  The code appends every path it meets: an input
\* given twice is listed twice.
C22_FileListHasNoDuplicates ==
  /\ \A i, j \in 1..Len(ing.files) : ing.files[i] = ing.files[j] => i = j
  /\ \A i \in 1..Len(ing.files) : isSupportedFile(ing.files[i])

(***************************************************************************)
(* Claims about index provisioning (SpecIndexFair).                        *)
(***************************************************************************)
\* C23: ensurePineconeIndex always terminates.  When the index exists it
\* creates nothing and does not poll; otherwise it creates the index once and
\* polls at most 30 times, returns as soon as a poll reports ready, and fails
\* with the time-out error when the 30th poll still reports not ready.
C23_EnsureIndexTerminates ==
  /\ [](/\ idx.created <= 1
        /\ idx.polls <= MaxAttempts
        /\ idx.found => (idx.created = 0 /\ idx.polls = 0 /\ idx.pc = "resolved")
        /\ idx.polls > 0 => (idx.created = 1 /\ ~idx.found)
        /\ idx.pc = "poll" => (~idx.ready /\ idx.polls = idx.attempts)
        /\ (idx.pc = "resolved" /\ ~idx.found) => (idx.ready /\ idx.polls >= 1)
        /\ idx.error = "timedOut"
             <=> (idx.pc = "rejected" /\ ~idx.ready /\ idx.polls = MaxAttempts)
        /\ idx.pc \in {"idle"} \cup IndexRunning \cup IndexSettled)
  /\ [][idx.ready => (idx'.polls = idx.polls \/ idx'.calls # idx.calls)]_vars
  /\ [](idx.pc \in IndexRunning => <>(idx.pc \in IndexSettled))

\* The index was missing, was created, and the 30th poll was the first to
\* report it ready: the call resolved.
C23_Witness ==
  /\ idx.pc = "resolved"
  /\ ~idx.found /\ idx.created = 1
  /\ idx.polls = MaxAttempts /\ idx.attempts = MaxAttempts - 1
  /\ idx.ready

(***************************************************************************)
(* Coverage of the text by its chunks (SpecChunk).                         *)
(***************************************************************************)
\* s without its first n characters.
DropFirst(s, n) == SubSeq(s, n + 1, Len(s))

\* The first chunk followed by every later chunk without its first overlap
\* characters.
RECURSIVE Reassemble(_, _, _)
Reassemble(chunks, overlap, k) ==
  IF k > Len(chunks) THEN <<>>
  ELSE (IF k = 1 THEN chunks[1] ELSE DropFirst(chunks[k], overlap))
         \o Reassemble(chunks, overlap, k + 1)

\* chunk is the part of text that starts at offset from.
IsSubstringAt(chunk, text, from) ==
  /\ from + Len(chunk) <= Len(text)
  /\ \A i \in 1..Len(chunk) : chunk[i] = text[from + i]

\* C24: for a text that is not empty and 0 <= overlap < size the chunks cover
\* the text without gaps: every chunk is a non-empty contiguous part of the
\* text, every chunk but the last has length size, the last chunk ends at the
\* end of the text, and the first chunk followed by every later chunk without
\* its first overlap characters is the text.
C24_ChunksCoverTheText ==
  (cOut.called /\ cIn.text # <<>> /\ cIn.overlap >= 0 /\ cIn.overlap < cIn.size)
    => LET chunks == cOut.chunks
           n      == Len(chunks)
       IN  /\ cOut.returned
           /\ n >= 1
           /\ \A k \in 1..n :
                /\ chunks[k] # <<>>
                /\ \E from \in 0..(Len(cIn.text) - 1) :
                     IsSubstringAt(chunks[k], cIn.text, from)
           /\ \A k \in 1..(n - 1) : Len(chunks[k]) = cIn.size
           /\ LastN(cIn.text, Len(chunks[n])) = chunks[n]
           /\ Reassemble(chunks, cIn.overlap, 1) = cIn.text

\* A text of four characters cut with size 2 and overlap 1 into three chunks
\* that share a character pairwise; the text has both letters, so a chunk
\* taken from the wrong place would differ.
C24_Witness ==
  /\ cOut.called
  /\ cIn.text = <<"a", "b", "b", "a">> /\ cIn.size = 2 /\ cIn.overlap = 1
  /\ cOut.chunks = <<<<"a", "b">>, <<"b", "b">>, <<"b", "a">>>>
  /\ Reassemble(cOut.chunks, cIn.overlap, 1) = cIn.text

(***************************************************************************)
(* Claims about option handling (SpecOptions).                             *)
(***************************************************************************)
Accepted == norm.pc \in {"normalized", "chunked"}

\* C25: for every options value createContextWindow accepts, the size and
\* overlap that reach chunkText satisfy 0 <= overlap < size, and chunking
\* returns.  The code checks neither value: a size of at most 150 given
\* without an overlap meets the default overlap 150, and the window of
\* chunkText never advances.
C25_OverlapBelowSizeAfterDefaults ==
  /\ Accepted => /\ 0 <= norm.config.chunkOverlap
                 /\ norm.config.chunkOverlap < norm.config.chunkSize
  /\ (norm.pc = "chunked" /\ cOut.called) => cOut.returned

\* The option fields that have a default, with the defaults.
DefaultOf ==
  [chunkSize |-> DefaultChunkSize, chunkOverlap |-> DefaultChunkOverlap,
   topK |-> DefaultTopK, maxContextChars |-> DefaultMaxContextChars,
   scoreThreshold |-> DefaultScoreThreshold, aiModel |-> DefaultModel]

\* C26: normalization passes every supplied option value through unchanged,
\* 0 included, and uses the default only for an option that is not supplied.
\* The code takes the default with ||, which also replaces a supplied 0.
C26_SuppliedValuesPassThrough ==
  Accepted
    => \A f \in DOMAIN DefaultOf :
         norm.config[f] = IF norm.opts[f].set THEN norm.opts[f].val ELSE DefaultOf[f]

(***************************************************************************)
(* Further claims about ask (SpecAsk).                                     *)
(***************************************************************************)
\* The texts of the matches packContext selected for the call under study.
SelectedTexts == packSelect(ask.matches, askCw.config.maxContextChars).chunks
AllSelectedBlank ==
  \A k \in 1..Len(SelectedTexts) : Len(Trim(SelectedTexts[k])) = 0

\* C27: ask calls chat only if a selected match has text that is not blank;
\* when the text of every selected match is empty or whitespace, however many
\* there are, ask returns the fixed "I don't know" text with no sources.  The
\* code tests the joined context: two blank texts are joined by the separator
\* "---", which is not blank, and chat is called.
C27_BlankMatchesAreNotAnswered ==
  (Queried /\ AllSelectedBlank)
    => /\ ChatCalls = 0
       /\ ask.pc # "chat"
       /\ ask.pc = "done" => ask.result = [text |-> IDontKnow, sources |-> <<>>]

(***************************************************************************)
(* Claims about record ids (SpecNamed).                                    *)
(***************************************************************************)
\* The (file path, chunk number) pairs of the call under study, and the id
\* ingestPaths gives the record of a pair.
ChunkPairs ==
  UNION {{<<ing.files[k], n>> : n \in 1..Len(ChunksOf(ing.files[k]))} :
           k \in KeptFiles(ing.files)}
PairId(pair) == chunkId(pair[1], pair[2] - 1, ChunksOf(pair[1])[pair[2]], 0)

\* C28: within one ingestPaths call the records of two different (file path,
\* chunk index) pairs never have the same hashed string, whatever the paths
\* and the texts, so they never have the same id and never overwrite each
\* other in the store.  The string is the plain concatenation
\* path # index : preview, which a path holding "#" and ":" makes ambiguous.
C28_DistinctChunksHaveDistinctIds ==
  PastReadLoop
    => /\ \A p, q \in ChunkPairs : p # q => PairId(p) # PairId(q)
       /\ ing.outcome = "upserted"
            => Cardinality(DOMAIN store[ing.namespace]) >= Cardinality(ChunkPairs)

(***************************************************************************)
(* Further claims about the registry (Spec).                               *)
(***************************************************************************)
\* C29: getCtxWindow(name, options) on a registered name returns the handle
\* registered under the name and ignores the options: the registry and every
\* handle, with the configuration it is bound to, are left as they were.
C29_GetOnRegisteredNameIgnoresOptions ==
  [][/\ (last'.op = "getCtxWindow" /\ hasCtxWindow(registry, last'.name))
          => /\ ~last'.threw
             /\ last'.cw = RegistryGet(registry, Some(last'.name))
             /\ registry' = registry
             /\ handles' = handles
     /\ \A k \in 1..Len(handles) : k <= Len(handles') /\ handles'[k] = handles[k]]_vars

\* getCtxWindow("a", { namespace: "b" }) on the registered name "a" returned
\* the handle createCtxWindow had registered, still bound to namespace "a".
C29_Witness ==
  /\ last.op = "getCtxWindow" /\ last.name = "a" /\ last.had
  /\ last.options.namespace = Some("b")
  /\ last.cw = RegistryGet(registry, Some("a"))
  /\ handles[last.cw].ingested
  /\ handles[last.cw].config.namespace = "a"

\* The createCtxWindow calls that completed for a name.
CompletedFor(name) ==
  {c \in 1..Len(creates) :
     creates[c].pc = "done" /\ creates[c].opts.namespace = Some(name)}

\* C30: once createCtxWindow has completed for a name, the handle that
\* getCtxWindow(name), called without options, returns queries the vector-store
\* namespace createCtxWindow ingested into, also when a custom
\* vectorStore.namespace was given and also after the entry was removed and
\* getCtxWindow connected again.  The handle built on reconnection is bound
\* to the namespace called name, not to the custom one.
C30_GetQueriesTheIngestedNamespace ==
  (last.op = "getCtxWindow" /\ last.options = NoOptions)
    => \A c \in CompletedFor(last.name) :
         handles[last.cw].config.namespace = normalizeOptions(creates[c].opts).namespace

====
